---- MODULE Spec2Model ----
(***************************************************************************)
(* Resilient data-access layer of the product catalogue service:           *)
(*   - the store gateway (mongoProdutoRepository) over one collection,     *)
(*   - the cache-aside orchestration service (produtoService),             *)
(*   - the retry executor (database.Retry / database.RetryWithResult).     *)
(*                                                                         *)
(* Three specifications share the module:                                  *)
(*   Spec        sequential service calls over store and cache             *)
(*   SpecCreate  concurrent callers running repository Create step by step *)
(*   SpecRetry   one run of the retry executor, step by step               *)
(***************************************************************************)
EXTENDS Integers, Sequences, FiniteSets, TLC

VARIABLES
    \* ---- store, cache and service (Spec, SpecCreate) ----
    now,          \* wall clock (time.Now()), in ticks
    store,        \* documents of the "produtos" collection, in insertion order
    uniqueIndex,  \* TRUE when CreateIndexes built idx_id at startup
    cache,        \* cache entries: key -> [value, expiration]
    last,         \* the service call that returned last, with its result
    lastWrite,    \* history: the latest successful Update/Patch, while only
                  \* reads of that record have followed it
    removed,      \* history: ids for which a service Delete has succeeded
    \* ---- concurrent creators (SpecCreate) ----
    cpc,          \* caller -> position inside repository Create
    cdoc,         \* caller -> the produto captured by the retried function
    catt,         \* caller -> attempt number of the retry loop
    cids,         \* history: caller -> identifiers returned by its Creates
    \* ---- retry executor (SpecRetry) ----
    opts,         \* RetryOptions of the run
    variant,      \* "Retry" or "RetryWithResult"
    rpc,          \* position inside the retry loop
    attempt,      \* loop variable attempt
    delay,        \* loop variable delay
    lastErr,      \* local lastErr
    ctxErr,       \* ctx.Err(): "nil", "canceled" or "deadline exceeded"
    ret,          \* what the executor returned
    calls,        \* history: outcomes of the invocations of fn, in order
    waits,        \* history: durations of the backoff waits, in order
    cancelAt,     \* history: position and number of invocations made when
                  \* ctx.Done() fired
    \* ---- in-process cache internals (SpecMem) ----
    mu,           \* memoryCache.mu: writer, readers and blocked readers
    mpc,          \* goroutine -> the call it is in and its position
    mloc          \* goroutine -> locals of that call (key, item, result)

svcVars    == <<now, store, uniqueIndex, cache, last, lastWrite, removed>>
createVars == <<cpc, cdoc, catt, cids>>
retryVars  == <<opts, variant, rpc, attempt, delay, lastErr, ctxErr, ret,
                calls, waits, cancelAt>>
memVars    == <<mu, mpc, mloc>>
vars       == <<svcVars, createVars, retryVars, memVars>>

-----------------------------------------------------------------------------
(* Bounds of the model *)

MaxRecords == 1   \* documents the collection may hold under Spec
MaxClock   == 2   \* last tick of the clock
TTL        == 1   \* cache time-to-live (produtoService.ttl), in ticks
MaxDocs    == 3   \* documents the collection may hold under SpecCreate
MaxTries   == 3   \* largest MaxAttempts of the retry policies of SpecRetry

(* Input domains *)

NoTime == 0                     \* zero time.Time / absent deleted_at

Nomes      == {<<>>, <<"a">>, <<"B">>}
Precos     == {0, 1}
Descricoes == {<<"x">>}
IDs        == 0 .. MaxRecords   \* 0 is rejected by the service

-----------------------------------------------------------------------------
(* model.Produto *)

ZeroProduto ==
    [id |-> 0, nome |-> <<>>, preco |-> 0, descricao |-> <<>>,
     created_at |-> NoTime, updated_at |-> NoTime, deleted_at |-> NoTime]

BeforeCreate(p, t) ==
    [p EXCEPT !.created_at = IF p.created_at = NoTime THEN t ELSE @,
              !.updated_at = IF p.updated_at = NoTime THEN t ELSE @]

BeforeUpdate(p, t) == [p EXCEPT !.updated_at = t]

\* dto.CreateProdutoRequest.ToModel / dto.UpdateProdutoRequest.ToModel
ToModel(nome, preco, descricao) ==
    [ZeroProduto EXCEPT !.nome = nome, !.preco = preco, !.descricao = descricao]

\* dto.PatchProdutoRequest.ToMap: only the fields present in the request
PatchFields == {"nome", "preco", "descricao"}

ToMap(req) == [k \in {f \in PatchFields : req[f].set} |-> req[k].v]

NoPatch ==
    [nome      |-> [set |-> FALSE, v |-> <<>>],
     preco     |-> [set |-> FALSE, v |-> 0],
     descricao |-> [set |-> FALSE, v |-> <<>>]]

\* the empty request, each field alone with every value, and all fields
PatchRequests ==
    {NoPatch}
    \cup {[NoPatch EXCEPT !.nome = [set |-> TRUE, v |-> n]] : n \in Nomes}
    \cup {[NoPatch EXCEPT !.preco = [set |-> TRUE, v |-> p]] : p \in Precos}
    \cup {[NoPatch EXCEPT !.descricao = [set |-> TRUE, v |-> d]] :
              d \in Descricoes}
    \cup {[nome      |-> [set |-> TRUE, v |-> n],
           preco     |-> [set |-> TRUE, v |-> p],
           descricao |-> [set |-> TRUE, v |-> d]] :
              n \in {<<"a">>}, p \in {1}, d \in Descricoes}

-----------------------------------------------------------------------------
(* Store gateway: mongoProdutoRepository over the collection `store` *)

Max(S) == CHOOSE m \in S : \A x \in S : x <= m
Min(S) == CHOOSE m \in S : \A x \in S : m <= x

IsLive(d) == d.deleted_at = NoTime

\* positions of the documents matching {"id": id, "deleted_at": {$exists: false}}
LiveMatches(st, id) == {i \in DOMAIN st : st[i].id = id /\ IsLive(st[i])}

\* getNextID that looks at the live documents only
getNextIDLiveOnly(st) ==
    IF \A i \in DOMAIN st : ~IsLive(st[i]) THEN 1
    ELSE Max({st[i].id : i \in {j \in DOMAIN st : IsLive(st[j])}}) + 1

\* getNextID: FindOne({}) sorted by id descending, ErrNoDocuments gives 1
getNextID(st) ==
    IF st = <<>> THEN 1 ELSE Max({st[i].id : i \in DOMAIN st}) + 1

\* InsertOne: rejected by the unique index idx_id when it exists
InsertOne(st, doc, unique) ==
    IF unique /\ \E i \in DOMAIN st : st[i].id = doc.id
    THEN [err |-> "duplicate key", store |-> st]
    ELSE [err |-> "nil", store |-> Append(st, doc)]

\* Create: one attempt of the function handed to RetryWithResult
RepoCreate(st, produto, t, unique) ==
    LET doc == BeforeCreate([produto EXCEPT !.id = getNextID(st)], t)
        ins == InsertOne(st, doc, unique)
    IN  IF ins.err # "nil"
        THEN [err |-> ins.err, val |-> ZeroProduto, store |-> st]
        ELSE [err |-> "nil", val |-> doc, store |-> ins.store]

\* FindAll: Find with the empty filter bson.M{}
RepoFindAll(st) == [err |-> "nil", val |-> st]

RepoFindByID(st, id) ==
    IF LiveMatches(st, id) = {}
    THEN [err |-> "not found", val |-> ZeroProduto]
    ELSE [err |-> "nil", val |-> st[Min(LiveMatches(st, id))]]

\* Update: FindOne on the live document, then ReplaceOne with the same filter
RepoUpdate(st, id, produto, t) ==
    LET p1 == BeforeUpdate([produto EXCEPT !.id = id], t)
        m  == LiveMatches(st, id)
    IN  IF m = {}
        THEN [err |-> "not found", val |-> ZeroProduto, store |-> st]
        ELSE LET existing == st[Min(m)]
                 p2 == [p1 EXCEPT !.created_at = existing.created_at,
                                  !.deleted_at = existing.deleted_at]
             IN  [err |-> "nil", val |-> p2,
                  store |-> [st EXCEPT ![Min(m)] = p2]]

\* $set of the update map on one document
ApplySet(d, updates) ==
    [f \in DOMAIN d |-> IF f \in DOMAIN updates THEN updates[f] ELSE d[f]]

\* Patch: FindOneAndUpdate on the live document, returning the document after
RepoPatch(st, id, updates, t) ==
    LET ups == [k \in DOMAIN updates \cup {"updated_at"} |->
                   IF k = "updated_at" THEN t ELSE updates[k]]
        m   == LiveMatches(st, id)
    IN  IF m = {}
        THEN [err |-> "not found", val |-> ZeroProduto, store |-> st]
        ELSE LET updated == ApplySet(st[Min(m)], ups)
             IN  [err |-> "nil", val |-> updated,
                  store |-> [st EXCEPT ![Min(m)] = updated]]

\* Delete: UpdateOne on the live document setting deleted_at and updated_at
RepoDelete(st, id, t) ==
    LET m == LiveMatches(st, id)
    IN  IF m = {}
        THEN [err |-> "not found", store |-> st]
        ELSE [err |-> "nil",
              store |-> [st EXCEPT ![Min(m)] =
                            [@ EXCEPT !.deleted_at = t, !.updated_at = t]]]

-----------------------------------------------------------------------------
(* Query translation: dto.FilterRequest, dto.SortRequest, dto.PaginationRequest *)

None == [set |-> FALSE, v |-> 0]
Some(x) == [set |-> TRUE, v |-> x]

\* strings.ToLower / the "i" option of $regex, on the characters of the model
Lower(c) == IF c = "A" THEN "a" ELSE IF c = "B" THEN "b" ELSE c

\* binary comparison order of the characters (upper case before lower case)
CharCode(c) ==
    CASE c = "." -> 46 [] c = "A" -> 65 [] c = "B" -> 66
      [] c = "a" -> 97 [] c = "b" -> 98 [] c = "x" -> 120 [] OTHER -> 0

\* $regex with $options "i": the pattern matches somewhere inside s;
\* "." matches any character, every other character matches itself
RegexMatchI(pat, s) ==
    \E off \in 0 .. (Len(s) - Len(pat)) :
        \A j \in 1 .. Len(pat) :
            pat[j] = "." \/ Lower(pat[j]) = Lower(s[off + j])

\* FilterRequest.ToMongoFilter
ToMongoFilter(f) ==
    LET keys == (IF f.nome.set /\ f.nome.v # <<>> THEN {"nome"} ELSE {})
           \cup (IF f.descricao.set /\ f.descricao.v # <<>>
                 THEN {"descricao"} ELSE {})
           \cup (IF f.precoMin.set \/ f.precoMax.set THEN {"preco"} ELSE {})
    IN  [k \in keys |->
            IF k = "preco"
            THEN [kind |-> "range", gte |-> f.precoMin, lte |-> f.precoMax]
            ELSE [kind |-> "regex", pat |-> f[k].v, options |-> "i"]]

\* FilterRequest.IsEmpty
IsEmpty(f) ==
    /\ (~f.nome.set \/ f.nome.v = <<>>)
    /\ ~f.precoMin.set
    /\ ~f.precoMax.set
    /\ (~f.descricao.set \/ f.descricao.v = <<>>)

\* one condition of a store predicate on one document
CondHolds(d, k, c) ==
    CASE c.kind = "regex"  -> RegexMatchI(c.pat, d[k])
      [] c.kind = "range"  -> /\ (c.gte.set => d[k] >= c.gte.v)
                              /\ (c.lte.set => d[k] <= c.lte.v)
      [] c.kind = "exists" -> (d[k] # NoTime) = c.v
      [] OTHER -> FALSE

DocMatches(d, mf) == \A k \in DOMAIN mf : CondHolds(d, k, mf[k])

\* mongoFilter["deleted_at"] = bson.M{"$exists": false}
WithLiveOnly(mf) ==
    [k \in DOMAIN mf \cup {"deleted_at"} |->
        IF k = "deleted_at" THEN [kind |-> "exists", v |-> FALSE] ELSE mf[k]]

AllowedSortFields ==
    {"id", "nome", "preco", "descricao", "created_at", "updated_at"}

\* strings.ToLower on the order words of the model
OrderLower(o) == IF o = "DESC" THEN "desc" ELSE IF o = "ASC" THEN "asc" ELSE o

\* SortRequest.Validate: the error, and the normalised request
SortValidate(s) ==
    IF s.field = "" THEN [err |-> "nil", sort |-> s]
    ELSE IF s.field \notin AllowedSortFields
         THEN [err |-> "campo de ordenacao invalido", sort |-> s]
         ELSE [err |-> "nil",
               sort |-> [s EXCEPT !.order =
                            IF OrderLower(@) \in {"asc", "desc"}
                            THEN OrderLower(@) ELSE "asc"]]

\* SortRequest.ToMongoSort
ToMongoSort(s) ==
    IF s.field = "" THEN <<[key |-> "id", dir |-> 1]>>
    ELSE <<[key |-> s.field, dir |-> IF s.order = "desc" THEN -1 ELSE 1]>>

\* Validate without the upper limit on the page size
PaginationValidateNoCap(p) ==
    [page     |-> IF p.page < 1 THEN 1 ELSE p.page,
     pageSize |-> IF p.pageSize < 1 THEN 10 ELSE p.pageSize]

\* PaginationRequest.Validate clamps, it never rejects
PaginationValidate(p) ==
    [page     |-> IF p.page < 1 THEN 1 ELSE p.page,
     pageSize |-> IF p.pageSize < 1 THEN 10
                  ELSE IF p.pageSize > 100 THEN 100 ELSE p.pageSize]

GetSkip(p)  == (p.page - 1) * p.pageSize
GetLimit(p) == p.pageSize

\* lexicographic order of two strings of the model, by character code
RECURSIVE StrLess(_, _)
StrLess(a, b) ==
    IF b = <<>> THEN FALSE
    ELSE IF a = <<>> THEN TRUE
    ELSE IF CharCode(Head(a)) # CharCode(Head(b))
         THEN CharCode(Head(a)) < CharCode(Head(b))
         ELSE StrLess(Tail(a), Tail(b))

\* strict order of two documents on one sort key
KeyLess(d1, d2, k) ==
    IF k \in {"nome", "descricao"} THEN StrLess(d1[k], d2[k]) ELSE d1[k] < d2[k]

\* the orders in which the store may return the documents at positions S
\* under sort specification srt (ties are returned in any order)
SortedOrders(st, S, srt) ==
    LET n == Cardinality(S)
        k == srt[1].key
    IN  {o \in [1 .. n -> S] :
            /\ \A i, j \in 1 .. n : i # j => o[i] # o[j]
            /\ \A i \in 1 .. n - 1 :
                  IF srt[1].dir = 1
                  THEN ~KeyLess(st[o[i + 1]], st[o[i]], k)
                  ELSE ~KeyLess(st[o[i]], st[o[i + 1]], k)}

\* Skip and Limit of a find (limit 0 means no limit)
Page(seq, skip, limit) ==
    LET hi == IF limit = 0 \/ skip + limit > Len(seq) THEN Len(seq)
              ELSE skip + limit
    IN  SubSeq(seq, skip + 1, hi)

\* FindAllPaginated: every result the store may return
RepoFindAllPaginated(st, skip, limit, filter, sort) ==
    LET mf  == WithLiveOnly(filter)
        srt == IF sort = <<>> THEN <<[key |-> "id", dir |-> 1]>> ELSE sort
        S   == {i \in DOMAIN st : DocMatches(st[i], mf)}
    IN  {Page([i \in 1 .. Cardinality(S) |-> st[o[i]]], skip, limit) :
            o \in SortedOrders(st, S, srt)}

\* Count: CountDocuments on the filter with the live-only condition
RepoCount(st, filter) ==
    Cardinality({i \in DOMAIN st : DocMatches(st[i], WithLiveOnly(filter))})

-----------------------------------------------------------------------------
(* Cache: the Cache interface (memoryCache / redisCache) and the JSON codec *)

\* cache.GenerateProdutoKey: "produto:id:<id>"
GenerateProdutoKey(id) == <<"produto", "id", id>>

\* json.Marshal of model.Produto: deleted_at is omitted when absent
EncodeProduto(p) ==
    [valid |-> TRUE,
     obj   |-> [k \in {f \in DOMAIN p : f # "deleted_at" \/ p[f] # NoTime}
                   |-> p[k]]]

\* json.Unmarshal into a zero model.Produto
DecodeProduto(data) ==
    IF ~data.valid THEN [err |-> "invalid character", val |-> ZeroProduto]
    ELSE [err |-> "nil",
          val |-> [f \in DOMAIN ZeroProduto |->
                      IF f \in DOMAIN data.obj THEN data.obj[f]
                      ELSE ZeroProduto[f]]]

Without(c, key) == [k \in DOMAIN c \ {key} |-> c[k]]

\* Get: a miss when the key is absent or its entry expired (the expired entry
\* is removed); a connection error when the backend call fails (ok = FALSE)
CacheGet(c, key, t, ok) ==
    IF ~ok THEN [err |-> "cache connection error", cache |-> c]
    ELSE IF key \notin DOMAIN c THEN [err |-> "cache miss", cache |-> c]
    ELSE IF t > c[key].expiration
         THEN [err |-> "cache miss", cache |-> Without(c, key)]
         ELSE [err |-> "nil", val |-> c[key].value, cache |-> c]

CacheSet(c, key, value, ttl, t, ok) ==
    IF ~ok THEN [err |-> "cache connection error", cache |-> c]
    ELSE [err |-> "nil",
          cache |-> [k \in DOMAIN c \cup {key} |->
                        IF k = key
                        THEN [value |-> value, expiration |-> t + ttl]
                        ELSE c[k]]]

CacheDelete(c, key, ok) ==
    IF ~ok THEN [err |-> "cache connection error", cache |-> c]
    ELSE [err |-> "nil", cache |-> Without(c, key)]

-----------------------------------------------------------------------------
(* Orchestration service: produtoService.  Every operator is one whole call  *)
(* on store st and cache c at time t; the Ok flags are the outcome of the   *)
(* cache backend calls the service makes.                                  *)

\* errors.WrapError(err, errors.ErrDatabase) and the "not found" test
\* the mapping that takes every store error for the no-match signal
MapRepoErrAllNotFound(err) == "PRODUTO_NOT_FOUND"

MapRepoErr(err) ==
    IF err = "not found" THEN "PRODUTO_NOT_FOUND" ELSE "DATABASE_ERROR"

\* one entry of the access log of a service call: a store gateway or cache
\* call the service made, and the error it returned
Call(name, err) == [call |-> name, err |-> err]

\* the log entry of the cache.Delete that invalidates the record's key
Invalidated(c, id, delOk) ==
    Call("cache.Delete", CacheDelete(c, GenerateProdutoKey(id), delOk).err)

Reply(code, val, st, c, failed, acc) ==
    [code |-> code, val |-> val, store |-> st, cache |-> c, failed |-> failed,
     acc |-> acc]

SvcCreate(st, c, t, unique, produto) ==
    IF produto.nome = <<>>
    THEN Reply("NOME_OBRIGATORIO", ZeroProduto, st, c, FALSE, <<>>)
    ELSE IF produto.preco <= 0
    THEN Reply("PRECO_INVALIDO", ZeroProduto, st, c, FALSE, <<>>)
    ELSE LET r == RepoCreate(st, produto, t, unique)
         IN  IF r.err # "nil"
             THEN Reply("DATABASE_ERROR", ZeroProduto, st, c, FALSE,
                        <<Call("repo.Create", r.err)>>)
             ELSE Reply("OK", r.val, r.store, c, FALSE,
                        <<Call("repo.Create", r.err)>>)

SvcFindAll(st) ==
    [code |-> "OK", list |-> RepoFindAll(st).val,
     acc |-> <<Call("repo.FindAll", RepoFindAll(st).err)>>]

\* FindByID that consults the cache before it checks the identifier
SvcFindByIDLateCheck(st, c, t, id, getOk, setOk) ==
    LET g == CacheGet(c, GenerateProdutoKey(id), t, getOk)
    IN  IF id <= 0
        THEN Reply("INVALID_ID", ZeroProduto, st, g.cache, FALSE,
                   <<Call("cache.Get", g.err)>>)
        ELSE Reply(MapRepoErr(RepoFindByID(st, id).err),
                   RepoFindByID(st, id).val, st, g.cache, FALSE,
                   <<Call("cache.Get", g.err),
                     Call("repo.FindByID", RepoFindByID(st, id).err)>>)

SvcFindByID(st, c, t, id, getOk, setOk) ==
    IF id <= 0 THEN Reply("INVALID_ID", ZeroProduto, st, c, FALSE, <<>>)
    ELSE
      LET key == GenerateProdutoKey(id)
          g   == CacheGet(c, key, t, getOk)
          dec == IF g.err = "nil" THEN DecodeProduto(g.val)
                 ELSE [err |-> "miss", val |-> ZeroProduto]
      IN  IF g.err = "nil" /\ dec.err = "nil"
          THEN Reply("OK", dec.val, st, g.cache, FALSE,
                     <<Call("cache.Get", g.err)>>)
          ELSE
            LET r == RepoFindByID(st, id)
            IN  IF r.err # "nil"
                THEN Reply(MapRepoErr(r.err), ZeroProduto, st, g.cache, ~getOk,
                           <<Call("cache.Get", g.err),
                             Call("repo.FindByID", r.err)>>)
                ELSE LET w == CacheSet(g.cache, key, EncodeProduto(r.val),
                                       TTL, t, setOk)
                     IN  Reply("OK", r.val, st, w.cache, ~getOk \/ ~setOk,
                               <<Call("cache.Get", g.err),
                                 Call("repo.FindByID", r.err),
                                 Call("cache.Set", w.err)>>)

\* Update that leaves the cache entry of the record in place
SvcUpdateNoInvalidate(st, c, t, id, produto, delOk) ==
    IF id <= 0 THEN Reply("INVALID_ID", ZeroProduto, st, c, FALSE, <<>>)
    ELSE IF produto.nome = <<>>
    THEN Reply("NOME_OBRIGATORIO", ZeroProduto, st, c, FALSE, <<>>)
    ELSE IF produto.preco <= 0
    THEN Reply("PRECO_INVALIDO", ZeroProduto, st, c, FALSE, <<>>)
    ELSE LET r == RepoUpdate(st, id, produto, t)
         IN  IF r.err # "nil"
             THEN Reply(MapRepoErr(r.err), ZeroProduto, st, c, FALSE,
                        <<Call("repo.Update", r.err)>>)
             ELSE Reply("OK", r.val, r.store, c, FALSE,
                        <<Call("repo.Update", r.err)>>)

SvcUpdate(st, c, t, id, produto, delOk) ==
    IF id <= 0 THEN Reply("INVALID_ID", ZeroProduto, st, c, FALSE, <<>>)
    ELSE IF produto.nome = <<>>
    THEN Reply("NOME_OBRIGATORIO", ZeroProduto, st, c, FALSE, <<>>)
    ELSE IF produto.preco <= 0
    THEN Reply("PRECO_INVALIDO", ZeroProduto, st, c, FALSE, <<>>)
    ELSE LET r == RepoUpdate(st, id, produto, t)
         IN  IF r.err # "nil"
             THEN Reply(MapRepoErr(r.err), ZeroProduto, st, c, FALSE,
                        <<Call("repo.Update", r.err)>>)
             ELSE Reply("OK", r.val, r.store,
                        CacheDelete(c, GenerateProdutoKey(id), delOk).cache,
                        ~delOk,
                        <<Call("repo.Update", r.err), Invalidated(c, id, delOk)>>)

\* updates["nome"].(string) and updates["preco"].(float64) of the update map
\* Patch that reports a failed cache invalidation to its caller
SvcPatchStrict(st, c, t, id, updates, delOk) ==
    IF id <= 0 THEN Reply("INVALID_ID", ZeroProduto, st, c, FALSE, <<>>)
    ELSE IF "nome" \in DOMAIN updates /\ updates["nome"] = <<>>
    THEN Reply("NOME_OBRIGATORIO", ZeroProduto, st, c, FALSE, <<>>)
    ELSE IF "preco" \in DOMAIN updates /\ updates["preco"] <= 0
    THEN Reply("PRECO_INVALIDO", ZeroProduto, st, c, FALSE, <<>>)
    ELSE LET r == RepoPatch(st, id, updates, t)
         IN  IF r.err # "nil"
             THEN Reply(MapRepoErr(r.err), ZeroProduto, st, c, FALSE,
                        <<Call("repo.Patch", r.err)>>)
             ELSE Reply(IF delOk THEN "OK" ELSE "DATABASE_ERROR",
                        IF delOk THEN r.val ELSE ZeroProduto, r.store,
                        CacheDelete(c, GenerateProdutoKey(id), delOk).cache,
                        ~delOk,
                        <<Call("repo.Patch", r.err), Invalidated(c, id, delOk)>>)

SvcPatch(st, c, t, id, updates, delOk) ==
    IF id <= 0 THEN Reply("INVALID_ID", ZeroProduto, st, c, FALSE, <<>>)
    ELSE IF "nome" \in DOMAIN updates /\ updates["nome"] = <<>>
    THEN Reply("NOME_OBRIGATORIO", ZeroProduto, st, c, FALSE, <<>>)
    ELSE IF "preco" \in DOMAIN updates /\ updates["preco"] <= 0
    THEN Reply("PRECO_INVALIDO", ZeroProduto, st, c, FALSE, <<>>)
    ELSE LET r == RepoPatch(st, id, updates, t)
         IN  IF r.err # "nil"
             THEN Reply(MapRepoErr(r.err), ZeroProduto, st, c, FALSE,
                        <<Call("repo.Patch", r.err)>>)
             ELSE Reply("OK", r.val, r.store,
                        CacheDelete(c, GenerateProdutoKey(id), delOk).cache,
                        ~delOk,
                        <<Call("repo.Patch", r.err), Invalidated(c, id, delOk)>>)

\* Delete that leaves the cache entry of the record in place
SvcDeleteNoInvalidate(st, c, t, id, delOk) ==
    IF id <= 0 THEN Reply("INVALID_ID", ZeroProduto, st, c, FALSE, <<>>)
    ELSE LET r == RepoDelete(st, id, t)
         IN  IF r.err # "nil"
             THEN Reply(MapRepoErr(r.err), ZeroProduto, st, c, FALSE,
                        <<Call("repo.Delete", r.err)>>)
             ELSE Reply("OK", ZeroProduto, r.store, c, FALSE,
                        <<Call("repo.Delete", r.err)>>)

SvcDelete(st, c, t, id, delOk) ==
    IF id <= 0 THEN Reply("INVALID_ID", ZeroProduto, st, c, FALSE, <<>>)
    ELSE LET r == RepoDelete(st, id, t)
         IN  IF r.err # "nil"
             THEN Reply(MapRepoErr(r.err), ZeroProduto, st, c, FALSE,
                        <<Call("repo.Delete", r.err)>>)
             ELSE Reply("OK", ZeroProduto, r.store,
                        CacheDelete(c, GenerateProdutoKey(id), delOk).cache,
                        ~delOk,
                        <<Call("repo.Delete", r.err), Invalidated(c, id, delOk)>>)

\* NewPaginationResponse whose division rounds the page count down
NewPaginationResponseFloor(page, pageSize, totalItems) ==
    LET pages      == totalItems \div pageSize
        totalPages == IF pages = 0 THEN 1 ELSE pages
    IN  [page |-> page, pageSize |-> pageSize, totalPages |-> totalPages,
         totalItems |-> totalItems, hasNext |-> page < totalPages,
         hasPrev |-> page > 1]

\* dto.NewPaginationResponse: integer division rounds the page count up
NewPaginationResponse(page, pageSize, totalItems) ==
    LET pages      == (totalItems + pageSize - 1) \div pageSize
        totalPages == IF pages = 0 THEN 1 ELSE pages
    IN  [page |-> page, pageSize |-> pageSize, totalPages |-> totalPages,
         totalItems |-> totalItems, hasNext |-> page < totalPages,
         hasPrev |-> page > 1]

ZeroPagination ==
    [page |-> 0, pageSize |-> 0, totalPages |-> 0, totalItems |-> 0,
     hasNext |-> FALSE, hasPrev |-> FALSE]

\* the orders in which "for k, v := range filters" may visit the keys
KeyOrders(mf) ==
    {o \in [1 .. Cardinality(DOMAIN mf) -> DOMAIN mf] :
        \A i, j \in DOMAIN o : i # j => o[i] # o[j]}

\* cache.GenerateProdutosListKey: every key the call may produce
GenerateProdutosListKey(page, pageSize, mf) ==
    {<<"produto", "list">>
        \o (IF page > 0 THEN <<"page", page>> ELSE <<>>)
        \o (IF pageSize > 0 THEN <<"size", pageSize>> ELSE <<>>)
        \o <<[i \in DOMAIN o |-> <<o[i], mf[o[i]]>>]>> : o \in KeyOrders(mf)}

\* cache.Encode of the struct {Produtos, Total}
EncodeList(produtos, total) ==
    [valid |-> TRUE,
     obj   |-> [Produtos |-> [i \in DOMAIN produtos |->
                                 EncodeProduto(produtos[i]).obj],
                Total    |-> total]]

\* cache.Decode into the struct {Produtos, Total}
DecodeList(data) ==
    IF ~data.valid \/ DOMAIN data.obj # {"Produtos", "Total"}
    THEN [err |-> "invalid character", produtos |-> <<>>, total |-> 0]
    ELSE [err |-> "nil",
          produtos |-> [i \in DOMAIN data.obj.Produtos |->
                           DecodeProduto([valid |-> TRUE,
                                          obj |-> data.obj.Produtos[i]]).val],
          total |-> data.obj.Total]

ListReply(code, list, meta, c, failed, acc) ==
    [code |-> code, list |-> list, meta |-> meta, cache |-> c,
     failed |-> failed, acc |-> acc]

\* FindAllPaginated: key is the cache key the call generated and found the
\* page the store returns for the paginated find
\* FindAllPaginated that stores a hit again, renewing its expiration
SvcFindAllPaginatedRefresh(st, c, t, pg, flt, srt, key, found, getOk, setOk) ==
    LET p  == PaginationValidate(pg)
        sv == SortValidate(srt)
    IN  IF sv.err # "nil"
        THEN ListReply("INVALID_INPUT", <<>>, ZeroPagination, c, FALSE, <<>>)
        ELSE
          LET g   == CacheGet(c, key, t, getOk)
              dec == IF g.err = "nil" THEN DecodeList(g.val)
                     ELSE [err |-> "miss", produtos |-> <<>>, total |-> 0]
          IN  IF g.err = "nil" /\ dec.err = "nil"
              THEN ListReply("OK", dec.produtos,
                             NewPaginationResponse(p.page, p.pageSize,
                                                   dec.total),
                             CacheSet(g.cache, key, g.val, TTL, t, setOk).cache,
                             FALSE,
                             <<Call("cache.Get", g.err),
                               Call("cache.Set", CacheSet(g.cache, key, g.val, TTL, t, setOk).err)>>)
              ELSE
                LET totalItems == RepoCount(st, ToMongoFilter(flt))
                    w == CacheSet(g.cache, key, EncodeList(found, totalItems),
                                  TTL, t, setOk)
                IN  ListReply("OK", found,
                              NewPaginationResponse(p.page, p.pageSize,
                                                    totalItems),
                              w.cache, ~getOk \/ ~setOk,
                              <<Call("cache.Get", g.err),
                                Call("repo.Count", "nil"),
                                Call("repo.FindAllPaginated", "nil"),
                                Call("cache.Set", w.err)>>)

SvcFindAllPaginated(st, c, t, pg, flt, srt, key, found, getOk, setOk) ==
    LET p  == PaginationValidate(pg)
        sv == SortValidate(srt)
    IN  IF sv.err # "nil"
        THEN ListReply("INVALID_INPUT", <<>>, ZeroPagination, c, FALSE, <<>>)
        ELSE
          LET g   == CacheGet(c, key, t, getOk)
              dec == IF g.err = "nil" THEN DecodeList(g.val)
                     ELSE [err |-> "miss", produtos |-> <<>>, total |-> 0]
          IN  IF g.err = "nil" /\ dec.err = "nil"
              THEN ListReply("OK", dec.produtos,
                             NewPaginationResponse(p.page, p.pageSize,
                                                   dec.total),
                             g.cache, FALSE,
                             <<Call("cache.Get", g.err)>>)
              ELSE
                LET totalItems == RepoCount(st, ToMongoFilter(flt))
                    w == CacheSet(g.cache, key, EncodeList(found, totalItems),
                                  TTL, t, setOk)
                IN  ListReply("OK", found,
                              NewPaginationResponse(p.page, p.pageSize,
                                                    totalItems),
                              w.cache, ~getOk \/ ~setOk,
                              <<Call("cache.Get", g.err),
                                Call("repo.Count", "nil"),
                                Call("repo.FindAllPaginated", "nil"),
                                Call("cache.Set", w.err)>>)

-----------------------------------------------------------------------------
(* Spec: sequential service calls.  The cache backend answers every call   *)
(* (the in-process cache never fails) and the unique index exists.         *)

Callers == {"c1", "c2"}

IdleCreate ==
    /\ cpc  = [c \in Callers |-> "idle"]
    /\ cdoc = [c \in Callers |-> ZeroProduto]
    /\ catt = [c \in Callers |-> 0]
    /\ cids = [c \in Callers |-> <<>>]

IdleRetry ==
    /\ opts = [MaxAttempts |-> 0, InitialDelay |-> 0, MaxDelay |-> 0,
               Multiplier |-> 1]
    /\ variant = "Retry"
    /\ rpc = "idle"
    /\ attempt = 0
    /\ delay = 0
    /\ lastErr = "nil"
    /\ ctxErr = "nil"
    /\ ret = [kind |-> "none", err |-> "nil", n |-> 0, wraps |-> "nil",
              value |-> "zero"]
    /\ calls = <<>>
    /\ waits = <<>>
    /\ cancelAt = [pc |-> "never", calls |-> 0]

MemCallers == {"g1", "g2"}
MemThreads == MemCallers \cup {"cleanup"}

Unlocked == [w |-> "none", ann |-> "none", r |-> {}, rq |-> {}]

NoItem == [value |-> "", expiration |-> 0, setAt |-> 0]

MemIdle == [op |-> "none", at |-> "idle"]

NoLocals == [key |-> "", item |-> NoItem, err |-> "none", at |-> 0]

IdleMem ==
    /\ mu = Unlocked
    /\ mpc = [t \in MemThreads |-> MemIdle]
    /\ mloc = [t \in MemThreads |-> NoLocals]

NoFilter ==
    [nome |-> None, precoMin |-> None, precoMax |-> None, descricao |-> None]

NoRequest ==
    [page |-> 0, pageSize |-> 0, field |-> "", order |-> "",
     filter |-> NoFilter, hit |-> FALSE]

NoCall ==
    [op |-> "none", id |-> 0, code |-> "OK", val |-> ZeroProduto,
     list |-> <<>>, gone |-> FALSE, acc |-> <<>>, meta |-> ZeroPagination,
     req |-> NoRequest]

NoWrite == [set |-> FALSE, id |-> 0, x |-> <<>>, stale |-> FALSE]

Init ==
    /\ now = 1
    /\ store = <<>>
    /\ uniqueIndex = TRUE
    /\ cache = <<>>
    /\ last = NoCall
    /\ lastWrite = NoWrite
    /\ removed = {}
    /\ IdleCreate
    /\ IdleMem
    /\ IdleRetry

\* the wall clock advances
Tick ==
    /\ now < MaxClock
    /\ now' = now + 1
    /\ UNCHANGED <<memVars, store, uniqueIndex, cache, last, lastWrite, removed,
                   createVars, retryVars>>

\* the call op(id) returned r; gone tells whether id had been deleted before,
\* acc lists the store gateway and cache calls the service made, in order
Returned(op, id, r) ==
    [NoCall EXCEPT !.op = op, !.id = id, !.code = r.code, !.val = r.val,
                   !.gone = id \in removed, !.acc = r.acc]

\* the cache entry of id is present and is not the record the write stored
HeldOlder(id, r) ==
    /\ GenerateProdutoKey(id) \in DOMAIN cache
    /\ DecodeProduto(cache[GenerateProdutoKey(id)].value).val # r.val

Written(id, x, r) ==
    IF r.code = "OK"
    THEN [set |-> TRUE, id |-> id, x |-> x, stale |-> HeldOlder(id, r)]
    ELSE NoWrite

\* Create while the collection holds fewer than limit documents
CreateUpTo(limit, nome, preco, descricao) ==
    LET r == SvcCreate(store, cache, now, uniqueIndex,
                       ToModel(nome, preco, descricao))
    IN  /\ Len(store) < limit
        /\ store' = r.store
        /\ cache' = r.cache
        /\ last' = Returned("Create", r.val.id, r)
        /\ lastWrite' = NoWrite
        /\ UNCHANGED <<memVars, now, uniqueIndex, removed, createVars, retryVars>>

Create(nome, preco, descricao) ==
    CreateUpTo(MaxRecords, nome, preco, descricao)

FindAll ==
    LET r == SvcFindAll(store)
    IN  /\ last' = [NoCall EXCEPT !.op = "FindAll", !.code = r.code,
                                  !.list = r.list, !.acc = r.acc]
        /\ lastWrite' = NoWrite
        /\ UNCHANGED <<memVars, now, store, uniqueIndex, cache, removed, createVars,
                       retryVars>>

FindByID(id) ==
    LET r == SvcFindByID(store, cache, now, id, TRUE, TRUE)
    IN  /\ store' = r.store
        /\ cache' = r.cache
        /\ last' = Returned("FindByID", id, r)
        /\ lastWrite' = IF lastWrite.id = id THEN lastWrite ELSE NoWrite
        /\ UNCHANGED <<memVars, now, uniqueIndex, removed, createVars, retryVars>>

Update(id, nome, preco, descricao) ==
    LET r == SvcUpdate(store, cache, now, id,
                       ToModel(nome, preco, descricao), TRUE)
        x == [nome |-> nome, preco |-> preco, descricao |-> descricao]
    IN  /\ store' = r.store
        /\ cache' = r.cache
        /\ last' = Returned("Update", id, r)
        /\ lastWrite' = Written(id, x, r)
        /\ UNCHANGED <<memVars, now, uniqueIndex, removed, createVars, retryVars>>

Patch(id, req) ==
    LET r == SvcPatch(store, cache, now, id, ToMap(req), TRUE)
    IN  /\ store' = r.store
        /\ cache' = r.cache
        /\ last' = Returned("Patch", id, r)
        /\ lastWrite' = Written(id, ToMap(req), r)
        /\ UNCHANGED <<memVars, now, uniqueIndex, removed, createVars, retryVars>>

Delete(id) ==
    LET r == SvcDelete(store, cache, now, id, TRUE)
    IN  /\ store' = r.store
        /\ cache' = r.cache
        /\ last' = Returned("Delete", id, r)
        /\ lastWrite' = NoWrite
        /\ removed' = IF r.code = "OK" THEN removed \cup {id} ELSE removed
        /\ UNCHANGED <<memVars, now, uniqueIndex, createVars, retryVars>>

Next ==
    \/ Tick
    \/ \E n \in Nomes, p \in Precos, d \in Descricoes : Create(n, p, d)
    \/ FindAll
    \/ \E id \in IDs : FindByID(id)
    \/ \E id \in IDs, n \in Nomes, p \in Precos, d \in Descricoes :
          Update(id, n, p, d)
    \/ \E id \in IDs, req \in PatchRequests : Patch(id, req)
    \/ \E id \in IDs : Delete(id)

Spec == Init /\ [][Next]_vars

-----------------------------------------------------------------------------
(* Properties of Spec *)

\* C1: a FindByID(id) that follows a successful Update(id, X) or Patch(id, X)
\* (after any passage of time and any number of earlier reads of the record)
\* succeeds and returns the fields X, also when the cache held an older value
\* of the record at the time of the write.
FindByIDReflectsWrite ==
    (last.op = "FindByID" /\ lastWrite.set /\ last.id = lastWrite.id) =>
        /\ last.code = "OK"
        /\ \A k \in DOMAIN lastWrite.x : last.val[k] = lastWrite.x[k]

\* a FindByID has returned after a write that found an older cached value
ReadAfterStaleWrite ==
    /\ last.op = "FindByID"
    /\ last.code = "OK"
    /\ lastWrite.set
    /\ last.id = lastWrite.id
    /\ lastWrite.stale

OnDeleted == {"FindByID", "Update", "Patch", "Delete"}

ProbeFilters ==
    [nome : {None, Some(<<"a">>)}, precoMin : {None, Some(1)},
     precoMax : {None}, descricao : {None}]

ProbeSorts == {<<>>, <<[key |-> "nome", dir |-> -1]>>}

\* C10: no read or query operation of the store gateway returns or counts a
\* record whose deletion timestamp is set: FindByID, FindAll (the list the
\* service returned last included), FindAllPaginated and Count.
ReadsSeeOnlyLive ==
    /\ \A id \in IDs : IsLive(RepoFindByID(store, id).val)
    /\ \A i \in DOMAIN RepoFindAll(store).val : IsLive(RepoFindAll(store).val[i])
    /\ last.op = "FindAll" => \A i \in DOMAIN last.list : IsLive(last.list[i])
    /\ \A f \in ProbeFilters, srt \in ProbeSorts :
          /\ \A res \in RepoFindAllPaginated(store, 0, 10, ToMongoFilter(f), srt) :
                \A i \in DOMAIN res : IsLive(res[i])
          /\ RepoCount(store, ToMongoFilter(f)) =
                Cardinality({i \in DOMAIN store :
                    IsLive(store[i]) /\ DocMatches(store[i], ToMongoFilter(f))})

-----------------------------------------------------------------------------
(* SpecCreate: callers run mongoProdutoRepository.Create concurrently.  The *)
(* function retried by RetryWithResult reads the largest identifier and     *)
(* inserts in two separate store operations; records are soft-deleted in    *)
(* between by other requests.                                               *)
(* Identifiers do not depend on the timestamps, so the clock stands still.  *)

DefaultMaxAttempts == 3

NewProduto == ToModel(<<"a">>, 1, <<"x">>)

InitCreate ==
    /\ now = 1
    /\ store = <<>>
    /\ uniqueIndex \in BOOLEAN
    /\ cache = <<>>
    /\ last = NoCall
    /\ lastWrite = NoWrite
    /\ removed = {}
    /\ IdleCreate
    /\ IdleMem
    /\ IdleRetry

InFlight == {c \in Callers : cpc[c] # "idle"}

\* repository Create is called: the closure captures produto, attempt 1 starts
CallCreate(c) ==
    /\ cpc[c] = "idle"
    /\ Len(store) + Cardinality(InFlight) < MaxDocs
    /\ cpc' = [cpc EXCEPT ![c] = "getNextID"]
    /\ cdoc' = [cdoc EXCEPT ![c] = NewProduto]
    /\ catt' = [catt EXCEPT ![c] = 1]
    /\ UNCHANGED <<memVars, svcVars, cids, retryVars>>

\* getNextID succeeds; produto.ID = id and produto.BeforeCreate()
ReadNextID(c) ==
    /\ cpc[c] = "getNextID"
    /\ cdoc' = [cdoc EXCEPT ![c] =
                   BeforeCreate([@ EXCEPT !.id = getNextID(store)], now)]
    /\ cpc' = [cpc EXCEPT ![c] = "InsertOne"]
    /\ UNCHANGED <<memVars, svcVars, catt, cids, retryVars>>

\* InsertOne answers: the document is stored, or the unique index rejects it
\* (a permanent error, returned at once)
InsertDoc(c) ==
    LET ins == InsertOne(store, cdoc[c], uniqueIndex)
    IN  /\ cpc[c] = "InsertOne"
        /\ Len(store) < MaxDocs
        /\ store' = ins.store
        /\ cids' = IF ins.err = "nil"
                   THEN [cids EXCEPT ![c] = Append(@, cdoc[c].id)] ELSE cids
        /\ cpc' = [cpc EXCEPT ![c] = "idle"]
        /\ UNCHANGED <<memVars, now, uniqueIndex, cache, last, lastWrite, removed,
                       cdoc, catt, retryVars>>

\* a store operation of the attempt fails with a network error: the attempt
\* is repeated from getNextID until DefaultMaxAttempts attempts were made
AttemptFails(c) ==
    /\ cpc[c] \in {"getNextID", "InsertOne"}
    /\ IF catt[c] = DefaultMaxAttempts
       THEN /\ cpc' = [cpc EXCEPT ![c] = "idle"]
            /\ catt' = catt
       ELSE /\ cpc' = [cpc EXCEPT ![c] = "getNextID"]
            /\ catt' = [catt EXCEPT ![c] = @ + 1]
    /\ UNCHANGED <<memVars, svcVars, cdoc, cids, retryVars>>

\* another request soft-deletes a record (repository Delete, one UpdateOne)
SoftDelete(id) ==
    LET r == RepoDelete(store, id, now)
    IN  /\ r.err = "nil"
        /\ store' = r.store
        /\ UNCHANGED <<memVars, now, uniqueIndex, cache, last, lastWrite, removed,
                       createVars, retryVars>>

NextCreate ==
    \/ \E c \in Callers : CallCreate(c)
    \/ \E c \in Callers : ReadNextID(c)
    \/ \E c \in Callers : InsertDoc(c)
    \/ \E c \in Callers : AttemptFails(c)
    \/ \E id \in 1 .. MaxDocs : SoftDelete(id)

SpecCreate == InitCreate /\ [][NextCreate]_vars

\* C3: the first document of the collection has identifier 1, and the
\* identifiers a caller's successive Creates return are strictly increasing,
\* whatever the other callers create and soft-delete in between.
CallerIDsIncrease ==
    /\ store # <<>> => store[1].id = 1
    /\ \A c \in Callers : \A i, j \in DOMAIN cids[c] :
          i < j => cids[c][i] < cids[c][j]

\* a caller has created twice although its first record was soft-deleted
CreatedAgainAfterDelete ==
    \E c \in Callers :
        /\ Len(cids[c]) >= 2
        /\ \E i \in DOMAIN store :
              store[i].id = cids[c][1] /\ ~IsLive(store[i])

\* C4: no two persisted records share an identifier, with or without the
\* unique index on id.
IdentifiersDistinct ==
    \A i, j \in DOMAIN store : i # j => store[i].id # store[j].id

-----------------------------------------------------------------------------
(* SpecRetry: one run of database.Retry / database.RetryWithResult.        *)
(* Durations are in units of 100ms.                                        *)

\* DefaultRetryOptions: 3 attempts, 100ms, 5s, 2.0
DefaultRetryOptions ==
    [MaxAttempts |-> DefaultMaxAttempts, InitialDelay |-> 1, MaxDelay |-> 50,
     Multiplier |-> 2]

Policies ==
    {DefaultRetryOptions} \cup
    [MaxAttempts : 0 .. MaxTries, InitialDelay : {0, 1, 2}, MaxDelay : {1, 3},
     Multiplier : {1, 2}]

\* what one invocation of fn may return
TransientErrors == {"network", "timeout", "client disconnected"}
PermanentErrors == {"not found", "duplicate key"}
Outcomes == {"nil"} \cup TransientErrors \cup PermanentErrors

\* RetryableError that retries every error
RetryableErrorAny(err) == err # "nil"

\* RetryableError: network errors, timeouts and ErrClientDisconnected
RetryableError(err) ==
    IF err = "nil" THEN FALSE
    ELSE IF err = "network" THEN TRUE
    ELSE IF err = "timeout" THEN TRUE
    ELSE IF err = "client disconnected" THEN TRUE
    ELSE FALSE

\* the values Retry and RetryWithResult return
RetOk(v) ==
    [kind |-> "ok", err |-> "nil", n |-> 0, wraps |-> "nil",
     value |-> IF v = "RetryWithResult" THEN "result" ELSE "zero"]

RetErr(err) ==
    [kind |-> "err", err |-> err, n |-> 0, wraps |-> "nil", value |-> "zero"]

\* fmt.Errorf("max retry attempts (%d) reached: %w", opts.MaxAttempts, lastErr)
RetExhausted(o, le) ==
    [kind |-> "exhausted", err |-> "max retry attempts reached",
     n |-> o.MaxAttempts, wraps |-> le, value |-> "zero"]

\* the ctx.Done() case of the select, written as the exhaustion error
OnCtxDoneWrapped(ce, o, le) == RetExhausted(o, le)

\* the ctx.Done() case of the select: return ctx.Err()
OnCtxDone(ce, o, le) ==
    [kind |-> "ctx", err |-> ce, n |-> 0, wraps |-> "nil", value |-> "zero"]

\* the last-attempt test, one attempt early
IsLastAttemptEarly(a, o) == a + 1 = o.MaxAttempts

\* "if attempt == opts.MaxAttempts { break }"
IsLastAttempt(a, o) == a = o.MaxAttempts

\* delay = time.Duration(float64(delay) * opts.Multiplier), capped at MaxDelay
NextDelay(d, o) ==
    IF d * o.Multiplier > o.MaxDelay THEN o.MaxDelay ELSE d * o.Multiplier

\* a wait that ignores the context (a plain sleep)
TimerMayFireAlways(ce, at, d) == TRUE

\* the time.After(delay) case of the select can be taken: the context is not
\* done, or it was done before the select was entered and the timer is due
\* at once (both cases ready, the select picks either)
TimerMayFire(ce, at, d) == ce = "nil" \/ (at # "select" /\ d <= 0)

InitRetry ==
    /\ now = 1
    /\ store = <<>>
    /\ uniqueIndex = TRUE
    /\ cache = <<>>
    /\ last = NoCall
    /\ lastWrite = NoWrite
    /\ removed = {}
    /\ IdleCreate
    /\ IdleMem
    /\ opts \in Policies
    /\ variant \in {"Retry", "RetryWithResult"}
    /\ rpc = "loop"
    /\ attempt = 1
    /\ delay = opts.InitialDelay
    /\ lastErr = "nil"
    /\ ctxErr = "nil"
    /\ ret = [kind |-> "none", err |-> "nil", n |-> 0, wraps |-> "nil",
              value |-> "zero"]
    /\ calls = <<>>
    /\ waits = <<>>
    /\ cancelAt = [pc |-> "never", calls |-> 0]

\* one iteration up to the select: fn is invoked and its error classified
Invoke(out) ==
    /\ rpc = "loop"
    /\ attempt <= opts.MaxAttempts
    /\ calls' = Append(calls, out)
    /\ IF out = "nil"
       THEN /\ ret' = RetOk(variant)
            /\ rpc' = "done"
            /\ lastErr' = lastErr
       ELSE /\ lastErr' = out
            /\ IF ~RetryableError(out)
               THEN ret' = RetErr(out) /\ rpc' = "done"
               ELSE IF IsLastAttempt(attempt, opts)
               THEN ret' = RetExhausted(opts, out) /\ rpc' = "done"
               ELSE ret' = ret /\ rpc' = "select"
    /\ UNCHANGED <<memVars, svcVars, createVars, opts, variant, attempt, delay, ctxErr,
                   waits, cancelAt>>

\* the loop condition fails before any attempt was the last one
LoopExit ==
    /\ rpc = "loop"
    /\ attempt > opts.MaxAttempts
    /\ ret' = RetExhausted(opts, lastErr)
    /\ rpc' = "done"
    /\ UNCHANGED <<memVars, svcVars, createVars, opts, variant, attempt, delay, lastErr,
                   ctxErr, calls, waits, cancelAt>>

\* the caller's context is cancelled or its deadline passes
Cancel(kind) ==
    /\ rpc \in {"loop", "select"}
    /\ ctxErr = "nil"
    /\ ctxErr' = kind
    /\ cancelAt' = [pc |-> rpc, calls |-> Len(calls)]
    /\ UNCHANGED <<memVars, svcVars, createVars, opts, variant, rpc, attempt, delay,
                   lastErr, ret, calls, waits>>

\* select: case <-ctx.Done()
SelectCtxDone ==
    /\ rpc = "select"
    /\ ctxErr # "nil"
    /\ ret' = OnCtxDone(ctxErr, opts, lastErr)
    /\ rpc' = "done"
    /\ UNCHANGED <<memVars, svcVars, createVars, opts, variant, attempt, delay, lastErr,
                   ctxErr, calls, waits, cancelAt>>

\* select: case <-time.After(delay), then the next delay and attempt++
SelectTimer ==
    /\ rpc = "select"
    /\ TimerMayFire(ctxErr, cancelAt.pc, delay)
    /\ waits' = Append(waits, delay)
    /\ delay' = NextDelay(delay, opts)
    /\ attempt' = attempt + 1
    /\ rpc' = "loop"
    /\ UNCHANGED <<memVars, svcVars, createVars, opts, variant, lastErr, ctxErr, ret,
                   calls, cancelAt>>

NextRetry ==
    \/ \E out \in Outcomes : Invoke(out)
    \/ LoopExit
    \/ \E kind \in {"canceled", "deadline exceeded"} : Cancel(kind)
    \/ SelectCtxDone
    \/ SelectTimer

SpecRetry == InitRetry /\ [][NextRetry]_vars

-----------------------------------------------------------------------------
(* Properties of SpecRetry                                                 *)

AllTransient == \A i \in 1 .. Len(calls) : RetryableError(calls[i])

\* C5: for every policy with MaxAttempts >= 1 and a context that is never
\* cancelled, a run whose every attempt failed with a transient error has
\* invoked fn exactly MaxAttempts times, has waited exactly MaxAttempts - 1
\* times (so none after the last attempt), and returns the error that names
\* MaxAttempts and wraps the error of the last attempt.
ExhaustionAfterMaxAttempts ==
    (rpc = "done" /\ opts.MaxAttempts >= 1 /\ ctxErr = "nil" /\ AllTransient)
        => /\ Len(calls) = opts.MaxAttempts
           /\ Len(waits) = opts.MaxAttempts - 1
           /\ ret.kind = "exhausted"
           /\ ret.n = opts.MaxAttempts
           /\ ret.wraps = calls[Len(calls)]
           /\ ret.value = "zero"

\* a run of three attempts, all transient, that ended in exhaustion
ExhaustedThreeAttempts ==
    /\ rpc = "done"
    /\ ctxErr = "nil"
    /\ opts.MaxAttempts = 3
    /\ Len(calls) = 3
    /\ AllTransient
    /\ Len(waits) = 2
    /\ ret.kind = "exhausted"

RECURSIVE Pow(_, _)
Pow(b, e) == IF e = 0 THEN 1 ELSE b * Pow(b, e - 1)

\* C6: the k-th backoff wait (the one before attempt k+1) lasts
\* InitialDelay * Multiplier^(k-1) capped at MaxDelay, so no wait is longer
\* than MaxDelay.
WaitsFollowCappedBackoff ==
    \A k \in 1 .. Len(waits) :
        /\ waits[k] = Min({opts.InitialDelay * Pow(opts.Multiplier, k - 1),
                           opts.MaxDelay})
        /\ waits[k] <= opts.MaxDelay

\* C7: an attempt that failed with an error RetryableError rejects is the
\* last invocation of the run; the run is over, it returns that error itself
\* (not wrapped, no attempt count), and no wait followed the attempt.
PermanentErrorReturnedAtOnce ==
    \A i \in 1 .. Len(calls) :
        (calls[i] # "nil" /\ calls[i] \notin TransientErrors)
            => /\ i = Len(calls)
               /\ rpc = "done"
               /\ ret = RetErr(calls[i])
               /\ Len(waits) = i - 1

\* a permanent error on the second attempt while a third one remained
PermanentWithAttemptsLeft ==
    /\ rpc = "done"
    /\ Len(calls) = 2
    /\ calls[2] \in PermanentErrors
    /\ opts.MaxAttempts > 2
    /\ ret.kind = "err"

\* C8: once the context is done while the run waits in the select, fn is
\* never invoked again, the run can only return, and what it returns is the
\* context's error.
CancelInWaitAborts ==
    cancelAt.pc = "select"
        => /\ Len(calls) = cancelAt.calls
           /\ rpc \in {"select", "done"}
           /\ rpc = "done" => (ret.kind = "ctx" /\ ret.err = ctxErr
                                /\ ctxErr \in {"canceled", "deadline exceeded"})

\* cancelled in the first wait with attempts left, and returned
CancelledWithAttemptsLeft ==
    /\ cancelAt.pc = "select"
    /\ rpc = "done"
    /\ ctxErr = "canceled"
    /\ Len(calls) = 1
    /\ opts.MaxAttempts > 1

\* C9 as stated: a run cancelled during a wait returns the exhaustion error
\* that wraps the error of the last attempt.
CancelInWaitReturnsExhaustion ==
    (cancelAt.pc = "select" /\ rpc = "done")
        => ret = RetExhausted(opts, lastErr)

\* C9 amended: a run cancelled during a wait returns ctx.Err() alone; the
\* error of the last attempt is dropped, and the result carries neither an
\* attempt count nor a wrapped error.
CancelInWaitDropsLastErr ==
    (cancelAt.pc = "select" /\ rpc = "done")
        => /\ lastErr \in TransientErrors
           /\ ret.err = ctxErr
           /\ ret.err # lastErr
           /\ ret.wraps = "nil"
           /\ ret.n = 0
           /\ ret # RetExhausted(opts, lastErr)

\* deadline passed during the second wait, after two transient failures
DeadlineInSecondWait ==
    /\ cancelAt.pc = "select"
    /\ rpc = "done"
    /\ ctxErr = "deadline exceeded"
    /\ Len(calls) = 2
    /\ lastErr = "timeout"

-----------------------------------------------------------------------------
(* SpecFault: sequential service calls, the list call included, over a     *)
(* cache backend whose Get, Set and Delete calls may fail and whose stored *)
(* bytes may come back undecodable.                                        *)

MaxPage  == 3    \* largest page number NewPaginationResponse is sampled on
MaxTotal == 25   \* largest totalItems NewPaginationResponse is sampled on

PageSizes == {1, 2, 10, 99, 100}

\* the list request SpecFault repeats
FaultPaginations == {[page |-> 2, pageSize |-> 1]}

\* the update and patch bodies SpecFault sends: two valid names, an empty
\* name and a price of zero
FaultUpdates ==
    {[nome |-> n, preco |-> 1] : n \in Nomes}
    \cup {[nome |-> <<"a">>, preco |-> 0]}

FaultPatches ==
    {[NoPatch EXCEPT !.nome = [set |-> TRUE, v |-> n]] : n \in Nomes}
    \cup {[NoPatch EXCEPT !.preco = [set |-> TRUE, v |-> 0]]}

\* pagination parameters of the list requests of SpecList: out of range and
\* in range
ListPaginations ==
    {[page |-> 0, pageSize |-> 0], [page |-> 1, pageSize |-> 100],
     [page |-> 1, pageSize |-> 101]}

ListFilters == {NoFilter}

ListSorts ==
    {[field |-> "", order |-> ""], [field |-> "nome", order |-> "DESC"],
     [field |-> "estoque", order |-> "asc"]}

FaultSorts == {srt \in ListSorts : srt.order # "DESC"}

Undecodable == [valid |-> FALSE, obj |-> <<>>]

InitFault ==
    /\ now = 1
    /\ store = <<>>
    /\ uniqueIndex = TRUE
    /\ cache = <<>>
    /\ last = NoCall
    /\ lastWrite = NoWrite
    /\ removed = {}
    /\ IdleCreate
    /\ IdleMem
    /\ IdleRetry

\* NewPaginationResponse applied to sampled arguments; the function reads no
\* state, so it is sampled before the first service call
Paginate(page, pageSize, totalItems) ==
    /\ last = NoCall
    /\ last' = [NoCall EXCEPT
                   !.op = "NewPaginationResponse",
                   !.req = [NoRequest EXCEPT !.page = page,
                                             !.pageSize = pageSize],
                   !.meta = NewPaginationResponse(page, pageSize, totalItems)]
    /\ UNCHANGED <<memVars, now, store, uniqueIndex, cache, lastWrite, removed,
                   createVars, retryVars>>

FindByIDF(id, getOk, setOk) ==
    LET r == SvcFindByID(store, cache, now, id, getOk, setOk)
    IN  /\ store' = r.store
        /\ cache' = r.cache
        /\ last' = Returned("FindByID", id, r)
        /\ UNCHANGED <<memVars, now, uniqueIndex, lastWrite, removed, createVars,
                       retryVars>>

UpdateF(id, nome, preco, descricao, delOk) ==
    LET r == SvcUpdate(store, cache, now, id,
                       ToModel(nome, preco, descricao), delOk)
    IN  /\ store' = r.store
        /\ cache' = r.cache
        /\ last' = Returned("Update", id, r)
        /\ UNCHANGED <<memVars, now, uniqueIndex, lastWrite, removed, createVars,
                       retryVars>>

PatchF(id, req, delOk) ==
    LET r == SvcPatch(store, cache, now, id, ToMap(req), delOk)
    IN  /\ store' = r.store
        /\ cache' = r.cache
        /\ last' = Returned("Patch", id, r)
        /\ UNCHANGED <<memVars, now, uniqueIndex, lastWrite, removed, createVars,
                       retryVars>>

DeleteF(id, delOk) ==
    LET r == SvcDelete(store, cache, now, id, delOk)
    IN  /\ store' = r.store
        /\ cache' = r.cache
        /\ last' = Returned("Delete", id, r)
        /\ removed' = IF r.code = "OK" THEN removed \cup {id} ELSE removed
        /\ UNCHANGED <<memVars, now, uniqueIndex, lastWrite, createVars, retryVars>>

\* the list call: the key is one of those GenerateProdutosListKey may build,
\* the page one of those the store may return for the validated request
FindAllPaginatedF(pagination, filter, sort, getOk, setOk) ==
    LET p  == PaginationValidate(pagination)
        mf == ToMongoFilter(filter)
        sv == SortValidate(sort)
    IN  \E key \in GenerateProdutosListKey(p.page, p.pageSize, mf) :
        \E found \in IF sv.err # "nil" THEN {<<>>}
                      ELSE RepoFindAllPaginated(store, GetSkip(p), GetLimit(p),
                                                WithLiveOnly(mf),
                                                ToMongoSort(sv.sort)) :
          LET r == SvcFindAllPaginated(store, cache, now, pagination, filter,
                                       sort, key, found, getOk, setOk)
          IN  /\ cache' = r.cache
              /\ last' = [NoCall EXCEPT
                             !.op = "FindAllPaginated", !.code = r.code,
                             !.list = r.list, !.acc = r.acc, !.meta = r.meta,
                             !.req = [page |-> pagination.page,
                                      pageSize |-> pagination.pageSize,
                                      field |-> sort.field,
                                      order |-> sort.order,
                                      filter |-> filter,
                                      hit |-> Len(r.acc) = 1]]
              /\ UNCHANGED <<memVars, now, store, uniqueIndex, lastWrite, removed,
                             createVars, retryVars>>

\* the backend hands back bytes that do not decode for one of its keys
Corrupt(key) ==
    /\ key \in DOMAIN cache
    /\ cache[key].value # Undecodable
    /\ cache' = [cache EXCEPT ![key].value = Undecodable]
    /\ UNCHANGED <<memVars, now, store, uniqueIndex, last, lastWrite, removed,
                   createVars, retryVars>>

CacheKeys ==
    {GenerateProdutoKey(id) : id \in IDs} \cup
    UNION {GenerateProdutosListKey(PaginationValidate(p).page,
                                   PaginationValidate(p).pageSize,
                                   ToMongoFilter(f)) :
              p \in ListPaginations \cup FaultPaginations, f \in ListFilters}

NextFault ==
    \/ \E n \in Nomes, p \in Precos, d \in Descricoes : Create(n, p, d)
    \/ \E id \in IDs, getOk \in BOOLEAN, setOk \in BOOLEAN :
          FindByIDF(id, getOk, setOk)
    \/ \E id \in IDs, u \in FaultUpdates, d \in Descricoes,
          delOk \in BOOLEAN : UpdateF(id, u.nome, u.preco, d, delOk)
    \/ \E id \in IDs, req \in FaultPatches, delOk \in BOOLEAN :
          PatchF(id, req, delOk)
    \/ \E id \in IDs, delOk \in BOOLEAN : DeleteF(id, delOk)
    \/ \E p \in FaultPaginations, f \in ListFilters, srt \in FaultSorts,
          getOk \in BOOLEAN, setOk \in BOOLEAN :
          FindAllPaginatedF(p, f, srt, getOk, setOk)
    \/ \E key \in CacheKeys : Corrupt(key)

SpecFault == InitFault /\ [][NextFault]_vars

-----------------------------------------------------------------------------
(* SpecList: list requests with in-range and out-of-range pagination over  *)
(* a collection that grows and shrinks, and NewPaginationResponse on       *)
(* sampled arguments.                                                      *)

NextList ==
    \/ \E page \in 1 .. MaxPage, size \in PageSizes, total \in 0 .. MaxTotal :
          Paginate(page, size, total)
    \/ \E n \in Nomes, p \in Precos, d \in Descricoes : Create(n, p, d)
    \/ \E id \in IDs, delOk \in BOOLEAN : DeleteF(id, delOk)
    \/ \E p \in ListPaginations, f \in ListFilters, srt \in ListSorts,
          getOk \in BOOLEAN, setOk \in BOOLEAN :
          FindAllPaginatedF(p, f, srt, getOk, setOk)
    \/ \E key \in CacheKeys : Corrupt(key)

SpecList == InitFault /\ [][NextList]_vars

-----------------------------------------------------------------------------
(* Properties of SpecFault and SpecList *)

ValidationCodes ==
    {"INVALID_ID", "NOME_OBRIGATORIO", "PRECO_INVALIDO", "INVALID_INPUT"}

\* C11: a call that fails service-level validation (id <= 0, empty name,
\* price <= 0, sort field outside the allow-list) returns its validation error
\* without one store gateway or cache call: its access log is empty and the
\* store and the cache are what they were before the call.
ValidationTouchesNothing ==
    [][(last' # last /\ last'.code \in ValidationCodes)
          => /\ last'.acc = <<>>
             /\ store' = store
             /\ cache' = cache]_vars

\* a list request with an unknown sort field was rejected while the store held
\* a record and the cache an entry
RejectedSortOverData ==
    /\ last.op = "FindAllPaginated"
    /\ last.code = "INVALID_INPUT"
    /\ last.req.field \notin AllowedSortFields
    /\ store # <<>>
    /\ DOMAIN cache # {}

\* the least number of pages of pageSize items that hold totalItems items
CeilPages(totalItems, pageSize) ==
    CHOOSE n \in 0 .. totalItems : /\ n * pageSize >= totalItems
                                   /\ n = 0 \/ (n - 1) * pageSize < totalItems

InRange(req) == req.page >= 1 /\ req.pageSize >= 1 /\ req.pageSize <= 100

\* C12: for page >= 1, pageSize in [1,100] and totalItems >= 0 the metadata
\* computed by NewPaginationResponse, directly or in a list call served from
\* the cache or from the store, reports totalPages = max(1,
\* ceil(totalItems / pageSize)), hasNext = page < totalPages and
\* hasPrev = page > 1 for the page and page size requested.
PaginationMetadata ==
    (/\ last.op \in {"NewPaginationResponse", "FindAllPaginated"}
     /\ last.code = "OK"
     /\ InRange(last.req))
        => LET m == last.meta
           IN  /\ m.page = last.req.page
               /\ m.pageSize = last.req.pageSize
               /\ m.totalItems >= 0
               /\ m.totalPages =
                     Max({1, CeilPages(m.totalItems, m.pageSize)})
               /\ m.hasNext = (m.page < m.totalPages)
               /\ m.hasPrev = (m.page > 1)
               /\ (last.op = "FindAllPaginated" /\ ~last.req.hit)
                     => m.totalItems = RepoCount(store, <<>>)

\* 25 items in pages of 10, page 3: three pages, no next page, a previous one
LastPageOfThree ==
    /\ last.op = "NewPaginationResponse"
    /\ last.req.page = 3 /\ last.req.pageSize = 10
    /\ last.meta.totalItems = 25
    /\ last.meta.totalPages = 3
    /\ ~last.meta.hasNext
    /\ last.meta.hasPrev

\* C13 as stated: a list request with page < 1 or pageSize outside [1,100] is
\* rejected with a validation error and touches neither store nor cache.
OutOfRangeRejected ==
    (last.op = "FindAllPaginated" /\ ~InRange(last.req))
        => last.code \in ValidationCodes /\ last.acc = <<>>

\* C13 as the code behaves: a list request is never rejected for its
\* pagination parameters. It is refused only for an unknown sort field;
\* otherwise it is served as page max(1, page) with page size 10 when
\* pageSize < 1 and min(100, pageSize) when not.
OutOfRangeClamped ==
    last.op = "FindAllPaginated"
        => /\ last.code \in ValidationCodes
                 => last.req.field \notin AllowedSortFields \cup {""}
           /\ last.code = "OK"
                 => /\ last.meta.page = Max({1, last.req.page})
                    /\ last.meta.pageSize =
                          IF last.req.pageSize < 1 THEN 10
                          ELSE Min({100, last.req.pageSize})

\* a request for page 0 with page size 0 was served from the store as the
\* first page of ten
ZeroPageServed ==
    /\ last.op = "FindAllPaginated"
    /\ last.req.page = 0 /\ last.req.pageSize = 0
    /\ last.code = "OK"
    /\ last.meta.page = 1 /\ last.meta.pageSize = 10
    /\ Len(last.acc) = 4
    /\ last.list # <<>>

-----------------------------------------------------------------------------
(* HTTP handlers: the response a handler writes for a service result *)

\* Status of the APIError values, by Code
StatusOf(code) ==
    CASE code \in {"INVALID_INPUT", "INVALID_ID"} -> 400
      [] code = "PRODUTO_NOT_FOUND" -> 404
      [] code \in {"NOME_OBRIGATORIO", "PRECO_INVALIDO"} -> 422
      [] OTHER -> 500

\* errors.WrapError(err, apiErr): apiErr with err.Error() as its details
WrapError(err, apiErr) == apiErr

\* utils.ErrorResponse for an APIError: its status and its code
ErrorResponse(code) == [status |-> StatusOf(code), code |-> code]

\* the error response of the handler that serves service call op, for the
\* service error code: GetProdutos wraps every service error in ErrDatabase,
\* the other handlers pass an APIError on as it is
HandlerError(op, code) ==
    IF op \in {"FindAll", "FindAllPaginated"}
    THEN ErrorResponse(WrapError(code, "DATABASE_ERROR"))
    ELSE ErrorResponse(code)

\* C14: a validation or not-found error of the service reaches the HTTP
\* caller with the same code and status, whichever handler serves the call; a
\* validation error is never answered as DATABASE_ERROR.
ServiceErrorsVerbatim ==
    (last.code \in ValidationCodes \cup {"PRODUTO_NOT_FOUND"})
        => HandlerError(last.op, last.code) = ErrorResponse(last.code)

-----------------------------------------------------------------------------
(* Properties of SpecFault: failing cache calls *)

IsRepoCall(a) == a.call \in {"repo.FindByID", "repo.Update", "repo.Patch",
                             "repo.Delete", "repo.Count",
                             "repo.FindAllPaginated"}

RepoCalls(acc) == {i \in DOMAIN acc : IsRepoCall(acc[i])}

\* the record the store holds for id now (the zero record if none is live)
StoreHolds(id) == RepoFindByID(store, id).val

\* C15: a cache failure is never escalated. A FindByID, FindAllPaginated,
\* Update, Patch or Delete call that passed validation and whose store calls
\* all succeeded returns success, whatever its cache Get, Set and Delete calls
\* did; and when it went to the store its result is the store's: the record
\* read or written, no live record after Delete, the count and a page the
\* store returns for the list.
CacheFailureNotEscalated ==
    (/\ last.op \in {"FindByID", "FindAllPaginated", "Update", "Patch",
                     "Delete"}
     /\ last.code \notin ValidationCodes
     /\ \A i \in RepoCalls(last.acc) : last.acc[i].err = "nil")
        => /\ last.code = "OK"
           /\ (last.op \in {"FindByID", "Update", "Patch"}
                  /\ RepoCalls(last.acc) # {})
                 => /\ RepoFindByID(store, last.id).err = "nil"
                    /\ last.val = StoreHolds(last.id)
           /\ last.op = "Delete"
                 => RepoFindByID(store, last.id).err = "not found"
           /\ (last.op = "FindAllPaginated" /\ RepoCalls(last.acc) # {})
                 => /\ last.meta.totalItems = RepoCount(store, <<>>)
                    /\ last.list \in
                          RepoFindAllPaginated(store,
                              (last.meta.page - 1) * last.meta.pageSize,
                              last.meta.pageSize, <<>>, <<>>)

\* FindByID got undecodable bytes from the cache, read the store, failed to
\* write the cache and still returned the store's record
ReadSurvivesBadCache ==
    /\ last.op = "FindByID"
    /\ last.code = "OK"
    /\ Len(last.acc) = 3
    /\ last.acc[1].err = "nil"
    /\ last.acc[3].err # "nil"
    /\ RepoFindByID(store, last.id).err = "nil"
    /\ last.val = StoreHolds(last.id)

\* C16: with cache calls that may fail, every FindByID(id) returns exactly
\* what the store holds for id at that moment: the live record, or
\* PRODUTO_NOT_FOUND when the record is absent or soft-deleted.
DegradedReadsMatchStore ==
    (last.op = "FindByID" /\ last.id > 0)
        => IF RepoFindByID(store, last.id).err = "nil"
           THEN last.code = "OK" /\ last.val = StoreHolds(last.id)
           ELSE last.code = "PRODUTO_NOT_FOUND"

-----------------------------------------------------------------------------
(* SpecGateway: the service calls one store gateway operation at a time on *)
(* a store whose driver calls may fail. Create, Update and Delete run      *)
(* their body under RetryWithResult / Retry with DefaultRetryOptions; the  *)
(* other operations call the driver once.                                  *)

GatewayOps ==
    {"Create", "FindAll", "FindByID", "Update", "Patch", "Delete", "Count",
     "FindAllPaginated"}

\* the repository methods whose body is wrapped in database.Retry*
UsesRetry(op) == op \in {"Create", "Update", "Delete"}

RetryVariant(op) == IF op = "Delete" THEN "Retry" ELSE "RetryWithResult"

\* what a driver call outside the retry executor may return: the outcomes of
\* fn, or the error of the caller's context
DirectOutcomes == Outcomes \cup {"canceled", "deadline exceeded"}

\* the service's translation of the gateway's final error
ServiceCode(op, r) ==
    IF r.kind = "ok" THEN "OK"
    ELSE IF op \in {"FindByID", "Update", "Patch", "Delete"}
         THEN MapRepoErr(r.err)
         ELSE "DATABASE_ERROR"

InitGateway ==
    /\ now = 1
    /\ store = <<>>
    /\ uniqueIndex = TRUE
    /\ cache = <<>>
    /\ last = NoCall
    /\ lastWrite = NoWrite
    /\ removed = {}
    /\ IdleCreate
    /\ IdleMem
    /\ IdleRetry

\* the service enters a repository method
GatewayCall(op) ==
    /\ rpc = "idle" \/ (rpc = "done" /\ last.code # "pending")
    /\ last' = [NoCall EXCEPT !.op = op, !.code = "pending"]
    /\ opts' = DefaultRetryOptions
    /\ variant' = RetryVariant(op)
    /\ rpc' = IF UsesRetry(op) THEN "loop" ELSE "direct"
    /\ attempt' = 1
    /\ delay' = DefaultRetryOptions.InitialDelay
    /\ lastErr' = "nil"
    /\ ctxErr' = "nil"
    /\ ret' = [kind |-> "none", err |-> "nil", n |-> 0, wraps |-> "nil",
               value |-> "zero"]
    /\ calls' = <<>>
    /\ waits' = <<>>
    /\ cancelAt' = [pc |-> "never", calls |-> 0]
    /\ UNCHANGED <<memVars, now, store, uniqueIndex, cache, lastWrite, removed,
                   createVars>>

\* a repository method without retry: one driver call, its error returned
Direct(out) ==
    /\ rpc = "direct"
    /\ calls' = Append(calls, out)
    /\ ret' = IF out = "nil" THEN RetOk(variant) ELSE RetErr(out)
    /\ rpc' = "done"
    /\ UNCHANGED <<memVars, svcVars, createVars, opts, variant, attempt, delay, lastErr,
                   ctxErr, waits, cancelAt>>

\* the service translates the repository's result and returns
ServiceReturn ==
    /\ rpc = "done"
    /\ last.code = "pending"
    /\ last' = [last EXCEPT !.code = ServiceCode(last.op, ret)]
    /\ UNCHANGED <<memVars, now, store, uniqueIndex, cache, lastWrite, removed,
                   createVars, retryVars>>

\* the loop of Retry never runs out under DefaultRetryOptions (its last
\* attempt returns from inside the loop), so LoopExit is no step here
NextGateway ==
    \/ \E op \in GatewayOps : GatewayCall(op)
    \/ \E out \in DirectOutcomes : Direct(out)
    \/ \E out \in Outcomes : Invoke(out)
    \/ \E kind \in {"canceled", "deadline exceeded"} : Cancel(kind)
    \/ SelectCtxDone
    \/ SelectTimer
    \/ ServiceReturn

SpecGateway == InitGateway /\ [][NextGateway]_vars

\* C17: every mutating gateway operation (Create, Update, Patch, Delete) runs
\* through the retry executor, so a first attempt that fails with a transient
\* error is followed by another attempt unless the caller's context ended;
\* FindAll and FindByID are attempted exactly once.
MutatingOpsRetry ==
    rpc = "done"
        => /\ (/\ last.op \in {"Create", "Update", "Patch", "Delete"}
               /\ calls[1] \in TransientErrors
               /\ ctxErr = "nil")
                 => Len(calls) > 1
           /\ last.op \in {"FindAll", "FindByID"} => Len(calls) = 1

\* the final error of the gateway is its no-match signal
FinalNotFound == ret.kind = "err" /\ ret.err = "not found"

\* C18: for FindByID, Update, Patch and Delete the service returns
\* PRODUTO_NOT_FOUND exactly when the gateway's final error is "not found" and
\* DATABASE_ERROR for every other gateway error (exhausted retries and a
\* context that ended during a wait included); a transient failure is never
\* reported as not found or as a validation error.
GatewayErrorsMapped ==
    (/\ last.op \in {"FindByID", "Update", "Patch", "Delete"}
     /\ rpc = "done"
     /\ last.code # "pending")
        => /\ (last.code = "PRODUTO_NOT_FOUND") = FinalNotFound
           /\ (ret.kind # "ok" /\ ~FinalNotFound)
                 => last.code = "DATABASE_ERROR"
           /\ ret.kind = "ok" => last.code = "OK"
           /\ calls[Len(calls)] \in TransientErrors
                 => last.code \notin ValidationCodes \cup {"PRODUTO_NOT_FOUND"}

\* Update gave up after three transient failures and the caller received
\* DATABASE_ERROR
ExhaustionIsDatabaseError ==
    /\ last.op = "Update"
    /\ ret.kind = "exhausted"
    /\ Len(calls) = DefaultMaxAttempts
    /\ \A i \in DOMAIN calls : calls[i] \in TransientErrors
    /\ last.code = "DATABASE_ERROR"

-----------------------------------------------------------------------------
(* Properties of Spec: the predicate of a list request *)

\* the filters probed on every reachable collection
FilterProbes ==
    [nome      : {None, Some(<<"A">>), Some(<<"b">>), Some(<<".">>)},
     precoMin  : {None, Some(1), Some(2)},
     precoMax  : {None, Some(0), Some(1)},
     descricao : {None, Some(<<"X">>)}]

\* sub occurs in s, letter case ignored
Contains(s, sub) ==
    \E off \in 0 .. (Len(s) - Len(sub)) :
        \A j \in 1 .. Len(sub) : Lower(s[off + j]) = Lower(sub[j])

\* document d satisfies every filter supplied in request f
Satisfies(d, f) ==
    /\ f.nome.set => Contains(d.nome, f.nome.v)
    /\ f.descricao.set => Contains(d.descricao, f.descricao.v)
    /\ f.precoMin.set => d.preco >= f.precoMin.v
    /\ f.precoMax.set => d.preco <= f.precoMax.v

\* C19: the predicate built for a list request selects exactly the live
\* records that satisfy every supplied filter (name and description contain
\* the filter text, case ignored; priceMin <= price <= priceMax, inclusive),
\* all live records when no filter is supplied; Count and FindAllPaginated
\* apply the live-only condition even to a filter map that carries its own
\* deleted_at entry.
ListPredicateExact ==
    /\ \A f \in FilterProbes :
          LET want == {i \in DOMAIN store :
                          IsLive(store[i]) /\ Satisfies(store[i], f)}
              mf   == ToMongoFilter(f)
          IN  /\ RepoCount(store, mf) = Cardinality(want)
              /\ \A res \in RepoFindAllPaginated(store, 0, 0, mf, <<>>) :
                    {res[i] : i \in DOMAIN res} = {store[i] : i \in want}
    /\ LET own  == [k \in {"deleted_at"} |-> [kind |-> "exists", v |-> TRUE]]
           live == {i \in DOMAIN store : IsLive(store[i])}
       IN  /\ RepoCount(store, own) = Cardinality(live)
           /\ \A res \in RepoFindAllPaginated(store, 0, 0, own, <<>>) :
                 {res[i] : i \in DOMAIN res} = {store[i] : i \in live}

-----------------------------------------------------------------------------
(* SpecRace: two callers run FindByID, Update, Patch and Delete at the same *)
(* time. A call is a sequence of steps, one per cache or store call; steps  *)
(* of different callers interleave freely. Every cache call succeeds.       *)

RaceIDs == 1 .. MaxRecords

RaceNomes == Nomes \ {<<>>}

RacePatches ==
    {[NoPatch EXCEPT !.nome = [set |-> TRUE, v |-> n]] : n \in RaceNomes}

AllIdle == \A c \in Callers : cpc[c] = "idle"

InitRace ==
    /\ now = 1
    /\ store = <<>>
    /\ uniqueIndex = TRUE
    /\ cache = <<>>
    /\ last = NoCall
    /\ lastWrite = NoWrite
    /\ removed = {}
    /\ IdleCreate
    /\ IdleMem
    /\ IdleRetry

\* FindByID up to the cache lookup: a hit returns, a miss goes on to the store
FindByIDGet(c, id) ==
    LET g   == CacheGet(cache, GenerateProdutoKey(id), now, TRUE)
        hit == g.err = "nil" /\ DecodeProduto(g.val).err = "nil"
    IN  /\ cpc[c] = "idle"
        /\ cache' = g.cache
        /\ cpc' = [cpc EXCEPT ![c] = IF hit THEN "idle" ELSE "FindByID:Find"]
        /\ cdoc' = [cdoc EXCEPT ![c] = IF hit THEN ZeroProduto
                                       ELSE [ZeroProduto EXCEPT !.id = id]]
        /\ UNCHANGED <<memVars, now, store, uniqueIndex, last, lastWrite, removed, catt,
                       cids, retryVars>>

\* FindByID: s.repo.FindByID; "not found" returns, a record goes on to Set
FindByIDFind(c) ==
    LET r == RepoFindByID(store, cdoc[c].id)
    IN  /\ cpc[c] = "FindByID:Find"
        /\ cpc' = [cpc EXCEPT ![c] = IF r.err = "nil" THEN "FindByID:Set"
                                     ELSE "idle"]
        /\ cdoc' = [cdoc EXCEPT ![c] = IF r.err = "nil" THEN r.val
                                       ELSE ZeroProduto]
        /\ UNCHANGED <<memVars, now, store, uniqueIndex, cache, last, lastWrite,
                       removed, catt, cids, retryVars>>

\* FindByID: s.cache.Set of the record read, then return it
FindByIDSet(c) ==
    /\ cpc[c] = "FindByID:Set"
    /\ cache' = CacheSet(cache, GenerateProdutoKey(cdoc[c].id),
                         EncodeProduto(cdoc[c]), TTL, now, TRUE).cache
    /\ cpc' = [cpc EXCEPT ![c] = "idle"]
    /\ cdoc' = [cdoc EXCEPT ![c] = ZeroProduto]
    /\ UNCHANGED <<memVars, now, store, uniqueIndex, last, lastWrite, removed, catt,
                   cids, retryVars>>

\* the store call of a write: an error returns, success goes on to invalidate
Wrote(c, id, r) ==
    /\ cpc[c] = "idle"
    /\ store' = r.store
    /\ cpc' = [cpc EXCEPT ![c] = IF r.err = "nil" THEN "Write:Invalidate"
                                 ELSE "idle"]
    /\ cdoc' = [cdoc EXCEPT ![c] = IF r.err = "nil"
                                   THEN [ZeroProduto EXCEPT !.id = id]
                                   ELSE ZeroProduto]
    /\ UNCHANGED <<memVars, now, uniqueIndex, cache, last, lastWrite, removed, catt,
                   cids, retryVars>>

UpdateStore(c, id, nome, preco, descricao) ==
    Wrote(c, id, RepoUpdate(store, id, ToModel(nome, preco, descricao), now))

PatchStore(c, id, req) == Wrote(c, id, RepoPatch(store, id, ToMap(req), now))

DeleteStore(c, id) == Wrote(c, id, RepoDelete(store, id, now))

\* the s.cache.Delete that follows a successful Update, Patch or Delete
Invalidate(c) ==
    /\ cpc[c] = "Write:Invalidate"
    /\ cache' = CacheDelete(cache, GenerateProdutoKey(cdoc[c].id), TRUE).cache
    /\ cpc' = [cpc EXCEPT ![c] = "idle"]
    /\ cdoc' = [cdoc EXCEPT ![c] = ZeroProduto]
    /\ UNCHANGED <<memVars, now, store, uniqueIndex, last, lastWrite, removed, catt,
                   cids, retryVars>>

NextRace ==
    \/ \E n \in RaceNomes, d \in Descricoes : Create(n, 1, d)
    \/ \E c \in Callers, id \in RaceIDs : FindByIDGet(c, id)
    \/ \E c \in Callers : FindByIDFind(c)
    \/ \E c \in Callers : FindByIDSet(c)
    \/ \E c \in Callers, id \in RaceIDs, n \in RaceNomes, d \in Descricoes :
          UpdateStore(c, id, n, 1, d)
    \/ \E c \in Callers, id \in RaceIDs, req \in RacePatches :
          PatchStore(c, id, req)
    \/ \E c \in Callers, id \in RaceIDs : DeleteStore(c, id)
    \/ \E c \in Callers : Invalidate(c)

SpecRace == InitRace /\ [][NextRace]_vars

\* C20: once every concurrent FindByID, Update, Patch and Delete call has
\* returned, the cache entry of each id is absent or equal to the live record
\* the store holds, so that a FindByID issued then returns what the store
\* holds: never a value from before a write, never a soft-deleted record.
QuiescentCacheAccurate ==
    AllIdle =>
        \A id \in RaceIDs :
            LET key  == GenerateProdutoKey(id)
                read == SvcFindByID(store, cache, now, id, TRUE, TRUE)
            IN  /\ key \in DOMAIN cache
                      => /\ RepoFindByID(store, id).err = "nil"
                         /\ DecodeProduto(cache[key].value).val =
                               RepoFindByID(store, id).val
                /\ IF RepoFindByID(store, id).err = "nil"
                   THEN read.code = "OK"
                        /\ read.val = RepoFindByID(store, id).val
                   ELSE read.code = "PRODUTO_NOT_FOUND"

-----------------------------------------------------------------------------
(* SpecKeys: list requests that differ in their sort specification or      *)
(* repeat one another, over a collection of up to MaxListed records and a  *)
(* cache that never fails. The clock stands still, so no entry expires.    *)

MaxListed == 2   \* documents the collection may hold under SpecKeys

KeyPaginations == {[page |-> 1, pageSize |-> 10]}

\* no filter, and a filter with two active fields
KeyFilters ==
    {NoFilter, [NoFilter EXCEPT !.nome = Some(<<"a">>), !.precoMin = Some(1)]}

\* the default order (id ascending) and name ascending
KeySorts ==
    {[field |-> "", order |-> ""], [field |-> "nome", order |-> "asc"]}

NextKeys ==
    \/ \E n \in Nomes \ {<<>>}, d \in Descricoes :
          CreateUpTo(MaxListed, n, 1, d)
    \/ \E p \in KeyPaginations, f \in KeyFilters, srt \in KeySorts :
          FindAllPaginatedF(p, f, srt, TRUE, TRUE)

SpecKeys == InitFault /\ [][NextKeys]_vars

\* list is in the order sort specification srt asks for
SortedBy(list, srt) ==
    \A i \in 1 .. Len(list) - 1 :
        IF srt[1].dir = 1
        THEN ~KeyLess(list[i + 1], list[i], srt[1].key)
        ELSE ~KeyLess(list[i], list[i + 1], srt[1].key)

\* C21: the list a FindAllPaginated call returns is ordered by the sort field
\* and direction of that call, whether it was served from the cache or from
\* the store.
ListOrderedAsRequested ==
    (last.op = "FindAllPaginated" /\ last.code = "OK")
        => SortedBy(last.list,
                    ToMongoSort(SortValidate([field |-> last.req.field,
                                              order |-> last.req.order]).sort))

\* C24: a list request with the same page, page size and filter as the list
\* request answered just before it (whose result is in the cache, within the
\* TTL) is served from the cache.
RepeatedRequestHits ==
    [][(/\ last.op = "FindAllPaginated" /\ last.code = "OK"
        /\ last'.op = "FindAllPaginated" /\ last'.code = "OK"
        /\ last'.req.page = last.req.page
        /\ last'.req.pageSize = last.req.pageSize
        /\ last'.req.filter = last.req.filter)
          => last'.req.hit]_vars

-----------------------------------------------------------------------------
(* SpecMem: the in-process cache (memoryCache), one step per lock          *)
(* operation and per critical section.  cache is c.items; an item also     *)
(* carries setAt, the time of the Set that stored it (history).  Two       *)
(* goroutines call Get, Set, Delete, Clear and Exists on one key; a third  *)
(* runs the cleanup loop started by NewMemoryCache.                        *)

MaxMemClock == 3   \* last tick of the clock under SpecMem

MemKeys == {"k"}
MemOps == {"Get", "Set", "Delete", "Clear", "Exists"}

\* sync.RWMutex.  One writer at a time owns the inner mutex (ann); from then
\* on RLock counts the reader but blocks it (rq).  The writer enters when the
\* readers that were inside have left; its Unlock lets the blocked readers
\* in before the next writer can announce itself.
RLock(m, t) == IF m.ann = "none" THEN [m EXCEPT !.r = @ \cup {t}] ELSE [m EXCEPT !.rq = @ \cup {t}]
RUnlock(m, t) == [m EXCEPT !.r = @ \ {t}]
CanAnnounce(m) == m.ann = "none"
Announce(m, t) == [m EXCEPT !.ann = t]
CanLock(m, t) == m.ann = t /\ m.r = {}
Lock(m, t) == [m EXCEPT !.w = t]
Unlock(m) == [m EXCEPT !.w = "none", !.ann = "none", !.r = m.rq, !.rq = {}]

\* time.Now().After(item.expiration)
ExpiredNever(item, t) == FALSE
Expired(item, t) == t > item.expiration

\* Get line 55: c.mu.RUnlock() before taking the exclusive lock
GetRUnlockSkipped(m, t) == m
GetRUnlock(m, t) == RUnlock(m, t)

FirstStep(op) == IF op \in {"Get", "Exists"} THEN "RLock" ELSE "Lock"

InitMem ==
    /\ now = 1
    /\ store = <<>>
    /\ uniqueIndex = TRUE
    /\ cache = <<>>
    /\ last = NoCall
    /\ lastWrite = NoWrite
    /\ removed = {}
    /\ IdleCreate
    /\ IdleRetry
    /\ IdleMem

At(t, op, at) == mpc[t] = [op |-> op, at |-> at]
Goto(t, op, at) == mpc' = [mpc EXCEPT ![t] = [op |-> op, at |-> at]]
Return(t) == mpc' = [mpc EXCEPT ![t] = MemIdle]
MemFrame == UNCHANGED <<now, store, uniqueIndex, last, lastWrite, removed, createVars, retryVars>>

\* a goroutine calls one of the cache's methods
MemCall(t, op, key) ==
    /\ mpc[t] = MemIdle
    /\ Goto(t, op, FirstStep(op))
    /\ mloc' = [mloc EXCEPT ![t] = [NoLocals EXCEPT !.key = key]]
    /\ UNCHANGED <<mu, cache>>
    /\ MemFrame

\* the ticker of cleanup fires
CleanupTick ==
    /\ mpc["cleanup"] = MemIdle
    /\ Goto("cleanup", "cleanup", "Lock")
    /\ UNCHANGED <<mu, mloc, cache>>
    /\ MemFrame

\* c.mu.RLock() is called (Get 44 and 59, Exists 102)
CallShared(t) ==
    /\ mpc[t].at \in {"RLock", "RLock2"}
    /\ mu' = RLock(mu, t)
    /\ Goto(t, mpc[t].op, IF mpc[t].at = "RLock" THEN "RLockWait" ELSE "RLock2Wait")
    /\ UNCHANGED <<mloc, cache>>
    /\ MemFrame

\* c.mu.RLock() returns
AcquireShared(t) ==
    /\ mpc[t].at \in {"RLockWait", "RLock2Wait"}
    /\ t \in mu.r
    /\ Goto(t, mpc[t].op, IF mpc[t].at = "RLockWait" THEN "Read" ELSE "Defer")
    /\ UNCHANGED <<mu, mloc, cache>>
    /\ MemFrame

\* c.mu.Lock() is called and gets the inner mutex: new readers block
AnnounceExclusive(t) ==
    /\ mpc[t].at = "Lock"
    /\ CanAnnounce(mu)
    /\ mu' = Announce(mu, t)
    /\ Goto(t, mpc[t].op, "LockWait")
    /\ UNCHANGED <<mloc, cache>>
    /\ MemFrame

\* c.mu.Lock() returns
AcquireExclusive(t) ==
    /\ mpc[t].at = "LockWait"
    /\ CanLock(mu, t)
    /\ mu' = Lock(mu, t)
    /\ Goto(t, mpc[t].op, "Body")
    /\ UNCHANGED <<mloc, cache>>
    /\ MemFrame

\* Get 47-66: the lookup and the expiry test, under the shared lock
GetRead(t) ==
    /\ At(t, "Get", "Read")
    /\ LET key == mloc[t].key
       IN IF key \notin DOMAIN cache
             THEN /\ mloc' = [mloc EXCEPT ![t].err = "ErrCacheMiss", ![t].at = now]
                  /\ Goto(t, "Get", "Defer")
          ELSE IF Expired(cache[key], now)
             THEN /\ mloc' = [mloc EXCEPT ![t].item = cache[key], ![t].err = "ErrCacheMiss", ![t].at = now]
                  /\ Goto(t, "Get", "RUnlock")
          ELSE /\ mloc' = [mloc EXCEPT ![t].item = cache[key], ![t].err = "nil", ![t].at = now]
               /\ Goto(t, "Get", "Defer")
    /\ UNCHANGED <<mu, cache>>
    /\ MemFrame

\* Get 55: the shared lock is given up before the exclusive one is taken
GetUpgrade(t) ==
    /\ At(t, "Get", "RUnlock")
    /\ mu' = GetRUnlock(mu, t)
    /\ Goto(t, "Get", "Lock")
    /\ UNCHANGED <<mloc, cache>>
    /\ MemFrame

\* Get 57: delete(c.items, key)
GetDelete(t) ==
    /\ At(t, "Get", "Body")
    /\ cache' = Without(cache, mloc[t].key)
    /\ Goto(t, "Get", "Unlock")
    /\ UNCHANGED <<mu, mloc>>
    /\ MemFrame

\* Set 74-79
SetStore(t) ==
    /\ At(t, "Set", "Body")
    /\ LET item == [value |-> "v", expiration |-> now + TTL, setAt |-> now]
           key == mloc[t].key
       IN cache' = [k \in DOMAIN cache \cup {key} |-> IF k = key THEN item ELSE cache[k]]
    /\ Goto(t, "Set", "Unlock")
    /\ UNCHANGED <<mu, mloc>>
    /\ MemFrame

\* Delete 87
DeleteKey(t) ==
    /\ At(t, "Delete", "Body")
    /\ cache' = Without(cache, mloc[t].key)
    /\ Goto(t, "Delete", "Unlock")
    /\ UNCHANGED <<mu, mloc>>
    /\ MemFrame

\* Clear 96
ClearAll(t) ==
    /\ At(t, "Clear", "Body")
    /\ cache' = <<>>
    /\ Goto(t, "Clear", "Unlock")
    /\ UNCHANGED <<mu, mloc>>
    /\ MemFrame

\* cleanup 125-130: every expired item is deleted
Sweep(t) ==
    /\ At(t, "cleanup", "Body")
    /\ cache' = [k \in {x \in DOMAIN cache : ~Expired(cache[x], now)} |-> cache[k]]
    /\ Goto(t, "cleanup", "Unlock")
    /\ UNCHANGED <<mu, mloc>>
    /\ MemFrame

\* Exists 105-115
ExistsRead(t) ==
    /\ At(t, "Exists", "Read")
    /\ LET key == mloc[t].key
           found == key \in DOMAIN cache /\ ~Expired(cache[key], now)
       IN mloc' = [mloc EXCEPT ![t].err = IF found THEN "true" ELSE "false", ![t].at = now]
    /\ Goto(t, "Exists", "Defer")
    /\ UNCHANGED <<mu, cache>>
    /\ MemFrame

\* c.mu.Unlock(): Get goes on to line 59, the other methods return
ReleaseExclusive(t) ==
    /\ mpc[t].at = "Unlock"
    /\ mu' = Unlock(mu)
    /\ IF mpc[t].op = "Get" THEN Goto(t, "Get", "RLock2") ELSE Return(t)
    /\ mloc' = IF mpc[t].op = "Get" THEN mloc ELSE [mloc EXCEPT ![t] = NoLocals]
    /\ UNCHANGED cache
    /\ MemFrame

\* the deferred c.mu.RUnlock() of Get and Exists, and the return
ReleaseShared(t) ==
    /\ mpc[t].at = "Defer"
    /\ mu' = RUnlock(mu, t)
    /\ Return(t)
    /\ mloc' = [mloc EXCEPT ![t] = NoLocals]
    /\ UNCHANGED cache
    /\ MemFrame

MemTick ==
    /\ now < MaxMemClock
    /\ now' = now + 1
    /\ UNCHANGED <<store, uniqueIndex, cache, last, lastWrite, removed, createVars, retryVars, memVars>>

\* the steps a goroutine takes once it is inside a call
MemStep(t) ==
    \/ CallShared(t)
    \/ AcquireShared(t)
    \/ AnnounceExclusive(t)
    \/ AcquireExclusive(t)
    \/ GetRead(t)
    \/ GetUpgrade(t)
    \/ GetDelete(t)
    \/ SetStore(t)
    \/ DeleteKey(t)
    \/ ClearAll(t)
    \/ ExistsRead(t)
    \/ Sweep(t)
    \/ ReleaseExclusive(t)
    \/ ReleaseShared(t)

NextMem ==
    \/ \E t \in MemCallers, op \in MemOps, key \in MemKeys : MemCall(t, op, key)
    \/ CleanupTick
    \/ \E t \in MemThreads : MemStep(t)
    \/ MemTick

SpecMem == InitMem /\ [][NextMem]_vars

\* C22: the lazy eviction of Get deletes only the expired item Get saw under
\* the shared lock: when it deletes, the key is absent or still holds that item.
LazyEvictionSparesNewerEntry == [][\A t \in MemCallers : (At(t, "Get", "Body") /\ mpc'[t].at = "Unlock" /\ mloc[t].key \in DOMAIN cache) => cache[mloc[t].key] = mloc[t].item]_vars

\* C25: a Get that returns a value read it no later than TTL after the Set
\* that stored it; an expired item reads as a miss.
GetReturnsFreshOnly == \A t \in MemCallers : (At(t, "Get", "Defer") /\ mloc[t].err = "nil") => mloc[t].at - mloc[t].item.setAt <= TTL

\* a Get found an expired item that no sweep had removed yet, and reports a miss
ExpiredReadBeforeSweep == \E t \in MemCallers : At(t, "Get", "RUnlock") /\ mloc[t].err = "ErrCacheMiss" /\ mloc[t].key \in DOMAIN cache /\ now > cache[mloc[t].key].expiration

-----------------------------------------------------------------------------
(* SpecMemLive: SpecMem with a fair scheduler.  A goroutine inside a call  *)
(* keeps running, and a goroutine waiting in Lock for the inner mutex gets *)
(* it if it is free again and again (sync.Mutex hands the lock to a        *)
(* starving waiter).  Nothing obliges a goroutine to start a call, the     *)
(* ticker to fire or the clock to advance.                                 *)

SpecMemLive == SpecMem /\ \A t \in MemThreads : SF_vars(MemStep(t))

\* a goroutine outside a call holds no lock and waits for none
HoldsNothing(t) == t \notin mu.r /\ t \notin mu.rq /\ mu.w # t /\ mu.ann # t

\* the map changes only in the critical section of the goroutine that holds
\* the exclusive lock
WrittenUnderLock == cache' # cache => (mu.w # "none" /\ mpc[mu.w].at = "Body" /\ mu' = mu)

\* C30: no call leaves a lock held, the map is written only under the
\* exclusive lock, and every call that has started returns.
CallsReturnUnlocked == /\ [](\A t \in MemThreads : mpc[t] = MemIdle => HoldsNothing(t)) /\ [][WrittenUnderLock]_vars /\ \A t \in MemThreads : (mpc[t] # MemIdle) ~> (mpc[t] = MemIdle)

\* a Get went through its expired-item path and holds the shared lock again
EvictionPathRelocked == \E t \in MemCallers : At(t, "Get", "Defer") /\ mloc[t].item # NoItem /\ mloc[t].err = "ErrCacheMiss" /\ t \in mu.r

-----------------------------------------------------------------------------
(* SpecSnapshot: FindAllPaginated step by step (cache lookup, Count, find   *)
(* with the cache Set and the return), run by two callers while records are *)
(* created and soft-deleted.  The store answers each call at once; the      *)
(* request is page 1 of size 10 without filter, in the default order.       *)

SnapPagination == [page |-> 1, pageSize |-> 10]
SnapSort == [field |-> "", order |-> ""]
SnapKeys == GenerateProdutosListKey(SnapPagination.page, SnapPagination.pageSize, ToMongoFilter(NoFilter))
SnapRequest(hit) == [NoRequest EXCEPT !.page = SnapPagination.page, !.pageSize = SnapPagination.pageSize, !.hit = hit]

\* FindAllPaginated 244-286: validation, key and cache lookup; a hit returns
ListGet(c) ==
    \E key \in SnapKeys :
      LET g   == CacheGet(cache, key, now, TRUE)
          dec == DecodeList(g.val)
          hit == g.err = "nil" /\ dec.err = "nil"
          p   == PaginationValidate(SnapPagination)
      IN  /\ cpc[c] = "idle"
          /\ SortValidate(SnapSort).err = "nil"
          /\ cache' = g.cache
          /\ cpc' = [cpc EXCEPT ![c] = IF hit THEN "idle" ELSE "List:Count"]
          /\ last' = IF hit
                     THEN [NoCall EXCEPT !.op = "FindAllPaginated", !.list = dec.produtos,
                                         !.meta = NewPaginationResponse(p.page, p.pageSize, dec.total),
                                         !.acc = <<Call("cache.Get", "nil")>>, !.req = SnapRequest(TRUE)]
                     ELSE last
          /\ UNCHANGED <<memVars, now, store, uniqueIndex, lastWrite, removed, cdoc, catt, cids, retryVars>>

\* FindAllPaginated 289: totalItems, err := s.repo.Count(ctx, mongoFilter)
ListCount(c) ==
    /\ cpc[c] = "List:Count"
    /\ cdoc' = [cdoc EXCEPT ![c] = [totalItems |-> RepoCount(store, ToMongoFilter(NoFilter))]]
    /\ cpc' = [cpc EXCEPT ![c] = "List:Find"]
    /\ UNCHANGED <<memVars, svcVars, catt, cids, retryVars>>

\* FindAllPaginated 295-323: s.repo.FindAllPaginated, the cache Set, the reply
ListFind(c) ==
    LET p == PaginationValidate(SnapPagination)
        totalItems == cdoc[c].totalItems
    IN  \E key \in SnapKeys :
        \E found \in RepoFindAllPaginated(store, GetSkip(p), GetLimit(p),
                                          WithLiveOnly(ToMongoFilter(NoFilter)),
                                          ToMongoSort(SortValidate(SnapSort).sort)) :
          /\ cpc[c] = "List:Find"
          /\ cache' = CacheSet(cache, key, EncodeList(found, totalItems), TTL, now, TRUE).cache
          /\ last' = [NoCall EXCEPT !.op = "FindAllPaginated", !.list = found,
                                    !.meta = NewPaginationResponse(p.page, p.pageSize, totalItems),
                                    !.acc = <<Call("cache.Get", "cache miss"), Call("repo.Count", "nil"),
                                              Call("repo.FindAllPaginated", "nil"), Call("cache.Set", "nil")>>,
                                    !.req = SnapRequest(FALSE)]
          /\ cpc' = [cpc EXCEPT ![c] = "idle"]
          /\ cdoc' = [cdoc EXCEPT ![c] = ZeroProduto]
          /\ UNCHANGED <<memVars, now, store, uniqueIndex, lastWrite, removed, catt, cids, retryVars>>

NextSnapshot ==
    \/ \E n \in RaceNomes, d \in Descricoes : CreateUpTo(MaxListed, n, 1, d)
    \/ \E id \in 1 .. MaxListed : Delete(id)
    \/ \E c \in Callers : ListGet(c)
    \/ \E c \in Callers : ListCount(c)
    \/ \E c \in Callers : ListFind(c)

SpecSnapshot == InitRace /\ [][NextSnapshot]_vars

\* C23: a list response built on a cache miss returns as many records as the
\* total it reports leaves for the page: min(pageSize, max(0, totalItems - skip)).
ListMatchesItsTotal == (last.op = "FindAllPaginated" /\ ~last.req.hit) => Len(last.list) = Min({last.meta.pageSize, Max({0, last.meta.totalItems - (last.meta.page - 1) * last.meta.pageSize})})

-----------------------------------------------------------------------------
(* SpecPatch: sequential Create, Update and Patch, where Patch receives any *)
(* map[string]interface{}: a value of the map carries its Go type, and the  *)
(* keys are not limited to the three fields a PatchProdutoRequest yields.   *)

ForeignID == 9   \* an identifier no Create of the model allocates
LaterTime == 2   \* a time.Time other than the creation time of any record

\* the values of the map as the driver writes them with $set
Values(updates) == [k \in DOMAIN updates |-> updates[k].v]

\* produtoService.Patch on a map of typed values: the two validations apply
\* only when the type assertion of the value succeeds
SvcPatchAny(st, c, t, id, updates, delOk) ==
    IF id <= 0 THEN Reply("INVALID_ID", ZeroProduto, st, c, FALSE, <<>>)
    ELSE IF "nome" \in DOMAIN updates /\ updates["nome"].type = "string" /\ updates["nome"].v = <<>>
    THEN Reply("NOME_OBRIGATORIO", ZeroProduto, st, c, FALSE, <<>>)
    ELSE IF "preco" \in DOMAIN updates /\ updates["preco"].type = "float64" /\ updates["preco"].v <= 0
    THEN Reply("PRECO_INVALIDO", ZeroProduto, st, c, FALSE, <<>>)
    ELSE LET r == RepoPatch(st, id, Values(updates), t)
         IN  IF r.err # "nil"
             THEN Reply(MapRepoErr(r.err), ZeroProduto, st, c, FALSE,
                        <<Call("repo.Patch", r.err)>>)
             ELSE Reply("OK", r.val, r.store,
                        CacheDelete(c, GenerateProdutoKey(id), delOk).cache,
                        ~delOk,
                        <<Call("repo.Patch", r.err), Invalidated(c, id, delOk)>>)

\* update maps: the three fields with the types the handler gives them, a
\* price given as a Go int, and the keys id and created_at
AnyPatches ==
    {[k \in {"nome"} |-> [type |-> "string", v |-> n]] : n \in Nomes}
    \cup {[k \in {"preco"} |-> [type |-> "float64", v |-> x]] : x \in Precos}
    \cup {[k \in {"preco"} |-> [type |-> "int", v |-> x]] : x \in Precos}
    \cup {[k \in {"id"} |-> [type |-> "int", v |-> ForeignID]]}
    \cup {[k \in {"created_at"} |-> [type |-> "time.Time", v |-> LaterTime]]}

PatchAny(id, updates) ==
    LET r == SvcPatchAny(store, cache, now, id, updates, TRUE)
    IN  /\ store' = r.store
        /\ cache' = r.cache
        /\ last' = Returned("Patch", id, r)
        /\ lastWrite' = NoWrite
        /\ UNCHANGED <<memVars, now, uniqueIndex, removed, createVars, retryVars>>

NextPatch ==
    \/ \E n \in Nomes, x \in Precos, d \in Descricoes : Create(n, x, d)
    \/ \E id \in IDs, n \in Nomes, x \in Precos, d \in Descricoes : Update(id, n, x, d)
    \/ \E id \in IDs \cup {ForeignID}, u \in AnyPatches : PatchAny(id, u)

SpecPatch == Init /\ [][NextPatch]_vars

\* C26: no step changes the identifier or the creation timestamp of a stored
\* record.
IdentityKept == [][\A i \in DOMAIN store : store'[i].id = store[i].id /\ store'[i].created_at = store[i].created_at]_vars

\* C28: every live record of the store has a non-empty name and a price above
\* zero.
LiveRecordsValid == \A i \in DOMAIN store : IsLive(store[i]) => (store[i].nome # <<>> /\ store[i].preco > 0)

-----------------------------------------------------------------------------
(* SpecWriters: two callers run Update, Patch and Delete on the same        *)
(* identifier at the same time.  Update is two store calls, FindOne and     *)
(* ReplaceOne; Patch and Delete are one store call each.  Every store call  *)
(* answers, and "not found" is not retried.                                 *)

\* Update 92-109: the FindOne on the live document and the record to write
UpdateRead(st, id, produto, t) ==
    LET p1 == BeforeUpdate([produto EXCEPT !.id = id], t)
        m  == LiveMatches(st, id)
    IN  IF m = {}
        THEN [err |-> "not found", val |-> ZeroProduto]
        ELSE [err |-> "nil",
              val |-> [p1 EXCEPT !.created_at = st[Min(m)].created_at,
                                 !.deleted_at = st[Min(m)].deleted_at]]

\* ReplaceOne filtered by the identifier alone
ReplaceOneByID(st, produto) ==
    LET m == {i \in DOMAIN st : st[i].id = produto.id}
    IN  IF m = {}
        THEN [err |-> "not found", val |-> ZeroProduto, store |-> st]
        ELSE [err |-> "nil", val |-> produto, store |-> [st EXCEPT ![Min(m)] = produto]]

\* Update 111-118: ReplaceOne with the filter of the read; MatchedCount = 0
\* is reported as "not found"
ReplaceOne(st, produto) ==
    LET m == LiveMatches(st, produto.id)
    IN  IF m = {}
        THEN [err |-> "not found", val |-> ZeroProduto, store |-> st]
        ELSE [err |-> "nil", val |-> produto, store |-> [st EXCEPT ![Min(m)] = produto]]

\* Update up to the FindOne of the gateway
UpdateFind(c, id, nome, preco, descricao) ==
    LET r == UpdateRead(store, id, ToModel(nome, preco, descricao), now)
    IN  /\ cpc[c] = "idle"
        /\ cpc' = [cpc EXCEPT ![c] = IF r.err = "nil" THEN "Update:Replace" ELSE "idle"]
        /\ cdoc' = [cdoc EXCEPT ![c] = r.val]
        /\ last' = IF r.err = "nil" THEN last
                   ELSE [NoCall EXCEPT !.op = "Update", !.id = id, !.code = MapRepoErr(r.err),
                                       !.acc = <<Call("Collection.FindOne", r.err)>>]
        /\ UNCHANGED <<memVars, now, store, uniqueIndex, cache, lastWrite, removed, catt, cids, retryVars>>

\* the ReplaceOne of Update, and on success the cache.Delete of the service
UpdateReplace(c) ==
    LET r == ReplaceOne(store, cdoc[c])
    IN  /\ cpc[c] = "Update:Replace"
        /\ store' = r.store
        /\ cache' = IF r.err = "nil" THEN CacheDelete(cache, GenerateProdutoKey(cdoc[c].id), TRUE).cache
                    ELSE cache
        /\ last' = [NoCall EXCEPT !.op = "Update", !.id = cdoc[c].id, !.val = r.val,
                                  !.code = IF r.err = "nil" THEN "OK" ELSE MapRepoErr(r.err),
                                  !.acc = <<Call("Collection.FindOne", "nil"),
                                            Call("Collection.ReplaceOne", r.err)>>]
        /\ cpc' = [cpc EXCEPT ![c] = "idle"]
        /\ cdoc' = [cdoc EXCEPT ![c] = ZeroProduto]
        /\ UNCHANGED <<memVars, now, uniqueIndex, lastWrite, removed, catt, cids, retryVars>>

NextWriters ==
    \/ \E n \in RaceNomes, d \in Descricoes : Create(n, 1, d)
    \/ \E c \in Callers, id \in RaceIDs, n \in RaceNomes, d \in Descricoes : UpdateFind(c, id, n, 1, d)
    \/ \E c \in Callers : UpdateReplace(c)
    \/ \E c \in Callers, id \in RaceIDs, req \in RacePatches : PatchStore(c, id, req)
    \/ \E c \in Callers, id \in RaceIDs : DeleteStore(c, id)
    \/ \E c \in Callers : Invalidate(c)
    \/ Tick

SpecWriters == InitRace /\ [][NextWriters]_vars

\* C27: a soft-deleted record is never written again: its deletion timestamp
\* stays, and no Update or Patch changes any of its fields.
DeletedStaysDeleted == [][\A i \in DOMAIN store : ~IsLive(store[i]) => store'[i] = store[i]]_vars

\* an Update read the live record, a Delete landed, and the replace matched
\* nothing
DeleteBeatsReplace == /\ last.op = "Update" /\ last.code = "PRODUTO_NOT_FOUND" /\ Len(last.acc) = 2 /\ \E i \in DOMAIN store : store[i].id = last.id /\ ~IsLive(store[i])

-----------------------------------------------------------------------------
(* Read path and its cache traffic (SpecFault) *)

ReadOps == {"FindByID", "FindAllPaginated"}

CacheSets(acc) == {i \in DOMAIN acc : acc[i].call = "cache.Set"}

\* the step is a FindByID or FindAllPaginated call that passed validation
ReadReturned == last' # last /\ last'.op \in ReadOps /\ last'.acc # <<>>

\* the call was answered by its cache.Get alone and left store and cache as
\* they were
AnsweredFromCache == /\ last'.acc = <<Call("cache.Get", "nil")>> /\ last'.code = "OK" /\ cache' = cache /\ store' = store

\* the call went from cache.Get to the store
WentToStore == Len(last'.acc) >= 2 /\ last'.acc[1].call = "cache.Get" /\ IsRepoCall(last'.acc[2])

====
